---- MODULE Spec2Model ----
(***************************************************************************)
(* Assessment & diagnostic engine of Pronunex (backend/nlp_core).          *)
(*                                                                         *)
(* The engine is a library of synchronous functions.  Each component is    *)
(* modelled as a call: the initial state holds the arguments, one action   *)
(* per function computes what the Python code computes and stores the      *)
(* returned value.  Text is a sequence of one-character strings, a word    *)
(* list is a sequence of such sequences, and every float of the code is    *)
(* kept as an exact fraction or as an integer number of hundredths /       *)
(* thousandths, so that comparisons against the thresholds are exact.      *)
(***************************************************************************)
EXTENDS Integers, Sequences, FiniteSets, TLC

VARIABLES
    pc,                  \* "call" before the function runs, "return" after
    seq1, seq2,          \* edit_distance.py: the two sequences compared
    edit_result,         \* edit_distance.py: the value returned
    reference_phonemes,  \* per_scorer.py: calculate_per's arguments ...
    user_phonemes,
    similarity_scores,   \* ... similarities in hundredths (0.85 is 85)
    per_result,          \* per_scorer.py: the PERResult returned
    text,                \* asr_validator.py: _is_hallucination's argument
    halluc_result,       \* asr_validator.py: the bool it returns
    expected_words,      \* word_matcher.py: compare_word_sequences' arguments
    actual_words,
    alignment,           \* word_matcher.py: what align_words_dtw returned
    comparison,          \* word_matcher.py: the list compare_word_sequences returns
    asr_output,          \* asr_validator.py: what the Whisper pipeline gives transcribe_audio
    expected_text,       \* asr_validator.py: validate_speech's arguments ...
    similarity_threshold, \* ... the threshold in hundredths (0.6 is 60)
    validation,          \* asr_validator.py: the dict validate_speech returns
    ran,                 \* asr_validator.py: the comparisons validate_speech has run
    letters_expected,    \* letter_highlighter.py: highlight_letter_errors' arguments
    letters_actual,
    letter_statuses,     \* letter_highlighter.py: the LetterStatus list returned
    summary,             \* word_matcher.py: the dict get_word_match_summary returns
    thread_pc,           \* asr_validator.py: where each concurrent validate_speech call stands
    thread_audio,        \* ... what the pipeline returns for its audio
    thread_expected,     \* ... its expected_text
    thread_chunk,        \* ... the chunk its transcribe_audio loop is at
    thread_transcribed,  \* ... its local variable transcribed
    thread_result,       \* ... the dict it returned
    word_location_lists, \* asr_validator.py: the list objects made by "_word_locations = []"
    word_locations,      \* asr_validator.py: the list the global _word_locations names
    detector_asr_result, \* mistake_detector.py: detect_mistakes argument asr_result
    detector_phoneme_scores, \* ... argument phoneme_scores
    double_falls_short,  \* ... whether the double sum of the blend lies just below its exact value
    llm_service,         \* ... MistakeDetector._llm_service
    reports,             \* ... what the latest two calls with these arguments returned
    tip_generation,      \* mistake_detector.py: what _generate_ai_tips was given and did in the latest call
    diff_transcribed,    \* asr_validator.py: get_word_diff's argument transcribed_words ...
    diff_expected,       \* ... and its argument expected_words
    diff_result,         \* ... the list it returns
    diff_mistakes,       \* mistake_detector.py: what _detect_word_mistakes makes of that list
    transcribe_calls,    \* asr_validator.py: what the pipeline gave each transcribe_audio call so far, in order
    module_word_locations, \* ... the module global _word_locations
    got_word_locations,  \* ... what get_word_locations returned after the latest call
    validator_user_words, \* word_validator.py: validate_word_count argument user_words ...
    validator_reference_words, \* ... and reference_words
    word_validation,     \* ... the WordValidationResult it returns
    caller_pc,           \* asr_validator.py, mistake_detector.py: where each concurrent caller of the two getters stands
    whisper_pipeline,    \* asr_validator.py: the module global _whisper_pipeline
    pipelines_constructed, \* ... how many times pipeline(...) was called
    got_pipeline,        \* ... what _get_whisper_model returned to each caller
    mistake_detector,    \* mistake_detector.py: the module global _mistake_detector
    detectors_constructed, \* ... how many times MistakeDetector() was called
    got_detector         \* ... what get_mistake_detector returned to each caller

editVars == <<seq1, seq2, edit_result>>

perVars == <<reference_phonemes, user_phonemes, similarity_scores, per_result>>

hallucVars == <<text, halluc_result>>

wordVars == <<expected_words, actual_words, alignment, comparison>>

gateVars == <<asr_output, expected_text, similarity_threshold, validation, ran>>

letterVars == <<letters_expected, letters_actual, letter_statuses>>

summaryVars == <<summary>>

threadVars == <<thread_pc, thread_audio, thread_expected, thread_chunk, thread_transcribed, thread_result, word_location_lists, word_locations>>

detectorVars == <<detector_asr_result, detector_phoneme_scores, double_falls_short, llm_service, reports>>

tipVars == <<tip_generation>>

diffVars == <<diff_transcribed, diff_expected, diff_result, diff_mistakes>>

locationVars == <<transcribe_calls, module_word_locations, got_word_locations>>

validatorVars == <<validator_user_words, validator_reference_words, word_validation>>

singletonVars == <<caller_pc, whisper_pipeline, pipelines_constructed, got_pipeline, mistake_detector, detectors_constructed, got_detector>>

vars == <<pc, editVars, perVars, hallucVars, wordVars, gateVars, letterVars, summaryVars, threadVars, detectorVars, tipVars, diffVars, locationVars, validatorVars, singletonVars>>

None == "None"

(***************************************************************************)
(* Generic helpers                                                         *)
(***************************************************************************)
SeqsUpTo(S, n) == UNION {[1..k -> S] : k \in 0..n}

Max(x, y) == IF x >= y THEN x ELSE y

Min(x, y) == IF x <= y THEN x ELSE y

\* F applied to the value of v: Python evaluates an expression once, when it
\* is assigned or passed, and the code then works on the value
With(v, F(_)) == CHOOSE result \in {F(x) : x \in {v}} : TRUE

Min3(x, y, z) == Min(x, Min(y, z))

\* The elements of a sequence
Range(s) == {s[k] : k \in DOMAIN s}

(***************************************************************************)
(* edit_distance.py                                                        *)
(***************************************************************************)
\* Bug variant of the cell rule: the no-cost match on the diagonal is charged.
EditCellChargedMatch(same, up, diag, left) == Min3(up + 1, diag + 1, left + 1)

\* One cell of the DP table: up = matrix[x-1,y], diag = matrix[x-1,y-1],
\* left = matrix[x,y-1].
EditCell(same, up, diag, left) ==
    IF same THEN Min3(up + 1, diag, left + 1)
            ELSE Min3(up + 1, diag + 1, left + 1)

\* Row x of the table from row x-1 (rows are 1-based: row[y + 1] = matrix[x, y]).
\* row holds the cells 0..y-1, so the inner loop ends when it has Len(s2) + 1.
RECURSIVE EditFillRow(_, _, _, _, _)
EditFillRow(prev, c, s2, row, y) ==
    IF Len(row) > Len(s2) THEN row
    ELSE EditFillRow(prev, c, s2,
                     Append(row, EditCell(c = s2[y], prev[y + 1], prev[y], row[y])),
                     y + 1)

\* The outer loop; a row has Len(s2) + 1 cells and is never empty.
RECURSIVE EditRows(_, _, _, _)
EditRows(s1, s2, prev, x) ==
    IF x > Len(s1) \/ Len(prev) = 0 THEN prev
    ELSE EditRows(s1, s2, EditFillRow(prev, s1[x], s2, <<x>>, 1), x + 1)

edit_distance(s1, s2) ==
    EditRows(s1, s2, [y \in 1..(Len(s2) + 1) |-> y - 1], 1)[Len(s2) + 1]

\* A float q of the code that is a quotient is kept as the fraction num/den.
Frac(n, d) == [num |-> n, den |-> d]

edit_distance_normalized(s1, s2) ==
    IF Len(s1) = 0 /\ Len(s2) = 0 THEN Frac(0, 1)
    ELSE Frac(edit_distance(s1, s2), Max(Len(s1), Len(s2)))

edit_distance_similarity(s1, s2) ==
    LET n == edit_distance_normalized(s1, s2)
    IN  Frac(n.den - n.num, n.den)

(***************************************************************************)
(* edit_distance.py: get_edit_operations                                   *)
(*                                                                         *)
(* matrix[x + 1][y + 1] is the code's matrix[x, y].                        *)
(***************************************************************************)
\* Bug variant of get_edit_operations' cell: deletions and insertions are not
\* considered.
OpsCellDiagonalOnly(same, up, diag, left) ==
    IF same THEN diag ELSE diag + 1

\* One cell of get_edit_operations' table
OpsCell(same, up, diag, left) ==
    IF same THEN diag ELSE Min3(up + 1, diag + 1, left + 1)

RECURSIVE OpsFillRow(_, _, _, _, _)
OpsFillRow(prev, c, s2, row, y) ==
    IF Len(row) > Len(s2) THEN row
    ELSE OpsFillRow(prev, c, s2,
                    Append(row, OpsCell(c = s2[y], prev[y + 1], prev[y], row[y])),
                    y + 1)

RECURSIVE OpsRows(_, _, _)
OpsRows(s1, s2, rows) ==
    IF Len(rows) > Len(s1) THEN rows
    ELSE OpsRows(s1, s2,
                 Append(rows, OpsFillRow(rows[Len(rows)], s1[Len(rows)], s2,
                                         <<Len(rows)>>, 1)))

OpsMatrix(s1, s2) == OpsRows(s1, s2, << [y \in 1..(Len(s2) + 1) |-> y - 1] >>)

\* Bug variant: the backtrack tries delete before substitute.
BacktrackChoiceDeleteFirst(s1, s2, matrix, x, y) ==
    IF x > 0 /\ y > 0 /\ s1[x] = s2[y] THEN "match"
    ELSE IF x > 0 /\ matrix[x + 1][y + 1] = matrix[x][y + 1] + 1 THEN "delete"
    ELSE IF x > 0 /\ y > 0 /\ matrix[x + 1][y + 1] = matrix[x][y] + 1 THEN "substitute"
    ELSE "insert"

\* The branch the backtrack loop takes at cell (x, y)
BacktrackChoice(s1, s2, matrix, x, y) ==
    IF x > 0 /\ y > 0 /\ s1[x] = s2[y] THEN "match"
    ELSE IF x > 0 /\ y > 0 /\ matrix[x + 1][y + 1] = matrix[x][y] + 1 THEN "substitute"
    ELSE IF x > 0 /\ matrix[x + 1][y + 1] = matrix[x][y + 1] + 1 THEN "delete"
    ELSE "insert"

\* The operation appended for a branch; a missing char is None
EditOperation(type, s1, s2, x, y) ==
    [type |-> type,
     position |-> IF type = "insert" THEN x ELSE x - 1,
     char1 |-> IF type = "insert" THEN None ELSE s1[x],
     char2 |-> IF type = "delete" THEN None ELSE s2[y]]

\* "while x > 0 or y > 0", then operations.reverse(): the operations of the
\* cells before (x, y) come first
RECURSIVE Backtrack(_, _, _, _, _)
Backtrack(s1, s2, matrix, x, y) ==
    IF ~(x > 0 \/ y > 0) THEN <<>>
    ELSE LET type == BacktrackChoice(s1, s2, matrix, x, y)
             nx == IF type = "insert" THEN x ELSE x - 1
             ny == IF type = "delete" THEN y ELSE y - 1
         IN  Append(Backtrack(s1, s2, matrix, nx, ny), EditOperation(type, s1, s2, x, y))

get_edit_operations(s1, s2) ==
    Backtrack(s1, s2, OpsMatrix(s1, s2), Len(s1), Len(s2))

(***************************************************************************)
(* Calls of the distance primitives                                        *)
(***************************************************************************)
MaxSeqLen == 3

EditAlphabet == {"a", "b"}

EditInputs == SeqsUpTo(EditAlphabet, MaxSeqLen)

IdleEdit == seq1 = <<>> /\ seq2 = <<>> /\ edit_result = None

IdlePer ==
    /\ reference_phonemes = <<>>
    /\ user_phonemes = <<>>
    /\ similarity_scores = <<>>
    /\ per_result = None

IdleHalluc == text = <<>> /\ halluc_result = None

IdleWords ==
    /\ expected_words = <<>>
    /\ actual_words = <<>>
    /\ alignment = None
    /\ comparison = None

IdleGate ==
    /\ asr_output = None
    /\ expected_text = <<>>
    /\ similarity_threshold = 0
    /\ validation = None
    /\ ran = {}

IdleLetters ==
    /\ letters_expected = <<>>
    /\ letters_actual = <<>>
    /\ letter_statuses = None

IdleSummary ==
    summary = None

IdleThreads ==
    /\ thread_pc = <<>>
    /\ thread_audio = <<>>
    /\ thread_expected = <<>>
    /\ thread_chunk = <<>>
    /\ thread_transcribed = <<>>
    /\ thread_result = <<>>
    /\ word_location_lists = <<>>
    /\ word_locations = 0

IdleDetector ==
    /\ detector_asr_result = <<>>
    /\ detector_phoneme_scores = <<>>
    /\ double_falls_short = FALSE
    /\ llm_service = None
    /\ reports = <<>>

IdleTips ==
    /\ tip_generation = <<>>

IdleDiff ==
    /\ diff_transcribed = <<>>
    /\ diff_expected = <<>>
    /\ diff_result = <<>>
    /\ diff_mistakes = <<>>

IdleLocations ==
    /\ transcribe_calls = <<>>
    /\ module_word_locations = <<>>
    /\ got_word_locations = None

IdleValidator ==
    /\ validator_user_words = <<>>
    /\ validator_reference_words = <<>>
    /\ word_validation = None

IdleSingletons ==
    /\ caller_pc = <<>>
    /\ whisper_pipeline = None
    /\ pipelines_constructed = 0
    /\ got_pipeline = <<>>
    /\ mistake_detector = None
    /\ detectors_constructed = 0
    /\ got_detector = <<>>

InitEdit ==
    /\ pc = "call"
    /\ seq1 \in EditInputs
    /\ seq2 \in EditInputs
    /\ edit_result = None
    /\ IdlePer
    /\ IdleHalluc
    /\ IdleWords
    /\ IdleGate
    /\ IdleLetters
    /\ IdleSummary
    /\ IdleThreads
    /\ IdleDetector
    /\ IdleTips
    /\ IdleDiff
    /\ IdleLocations
    /\ IdleValidator
    /\ IdleSingletons

CallEditDistance ==
    /\ pc = "call"
    /\ edit_result' = [fn |-> "edit_distance", value |-> edit_distance(seq1, seq2)]
    /\ pc' = "return"
    /\ UNCHANGED <<seq1, seq2, perVars, hallucVars, wordVars, gateVars, letterVars, summaryVars, threadVars, detectorVars, tipVars, diffVars, locationVars, validatorVars, singletonVars>>

CallEditDistanceNormalized ==
    /\ pc = "call"
    /\ edit_result' = [fn |-> "edit_distance_normalized",
                       value |-> edit_distance_normalized(seq1, seq2)]
    /\ pc' = "return"
    /\ UNCHANGED <<seq1, seq2, perVars, hallucVars, wordVars, gateVars, letterVars, summaryVars, threadVars, detectorVars, tipVars, diffVars, locationVars, validatorVars, singletonVars>>

CallEditDistanceSimilarity ==
    /\ pc = "call"
    /\ edit_result' = [fn |-> "edit_distance_similarity",
                       value |-> edit_distance_similarity(seq1, seq2)]
    /\ pc' = "return"
    /\ UNCHANGED <<seq1, seq2, perVars, hallucVars, wordVars, gateVars, letterVars, summaryVars, threadVars, detectorVars, tipVars, diffVars, locationVars, validatorVars, singletonVars>>

CallGetEditOperations ==
    /\ pc = "call"
    /\ edit_result' = [fn |-> "get_edit_operations",
                       value |-> get_edit_operations(seq1, seq2)]
    /\ pc' = "return"
    /\ UNCHANGED <<seq1, seq2, perVars, hallucVars, wordVars, gateVars, letterVars, summaryVars, threadVars, detectorVars, tipVars, diffVars, locationVars, validatorVars, singletonVars>>

NextEdit ==
    \/ CallEditDistance
    \/ CallEditDistanceNormalized
    \/ CallEditDistanceSimilarity
    \/ CallGetEditOperations

SpecEdit == InitEdit /\ [][NextEdit]_vars

\* C9: for all sequences a and b, edit_distance(a,a) = 0, edit_distance(a,b) =
\* edit_distance(b,a) and 0 <= edit_distance(a,b) <= max(|a|,|b|); hence
\* edit_distance_normalized(a,b) lies in [0,1] and is 0 when both are empty.
C9_EditDistanceMetric ==
    pc = "return" =>
        /\ edit_result.fn = "edit_distance" =>
               /\ edit_result.value = edit_distance(seq2, seq1)
               /\ (seq1 = seq2 => edit_result.value = 0)
               /\ edit_result.value >= 0
               /\ edit_result.value <= Max(Len(seq1), Len(seq2))
        /\ edit_result.fn = "edit_distance_normalized" =>
               /\ edit_result.value.den > 0
               /\ edit_result.value.num >= 0
               /\ edit_result.value.num <= edit_result.value.den
               /\ (Len(seq1) = 0 /\ Len(seq2) = 0 => edit_result.value.num = 0)

\* Two different sequences of equal length with nothing in common: the
\* normalized distance reaches its upper end 1.
C9_Witness ==
    /\ pc = "return"
    /\ edit_result.fn = "edit_distance_normalized"
    /\ seq1 = <<"a", "a">>
    /\ seq2 = <<"b", "b">>
    /\ edit_result.value = Frac(2, 2)

(***************************************************************************)
(* per_scorer.py                                                           *)
(***************************************************************************)
PENALTY_SUBSTITUTION == 5

PENALTY_DELETION == 10

PENALTY_INSERTION == 3

PENALTY_WEAK_PHONEME == 2

\* THRESHOLDS, in hundredths
THRESHOLD_CORRECT == 85

THRESHOLD_WEAK == 60

PhonemeError(pos, expected, actual, type, sim, msg) ==
    [word |-> <<>>, position |-> pos, expected_phoneme |-> expected,
     actual_phoneme |-> actual, error_type |-> type, similarity |-> sim,
     message |-> msg]

\* Bug variant of the classification: the thresholds are exclusive.
ClassifySimilarityExclusive(sim) ==
    IF sim > THRESHOLD_CORRECT THEN "correct"
    ELSE IF sim > THRESHOLD_WEAK THEN "weak"
    ELSE "substitution"

\* The if / elif / else on sim of the reference loop.
ClassifySimilarity(sim) ==
    IF sim >= THRESHOLD_CORRECT THEN "correct"
    ELSE IF sim >= THRESHOLD_WEAK THEN "weak"
    ELSE "substitution"

\* One pass of "for i, ref_phoneme in enumerate(reference_phonemes)"; i is the
\* 1-based index, the records carry the code's 0-based position i - 1.
PerStep(acc, ref, user, sims, i) ==
    IF i - 1 >= Len(sims)
    THEN [acc EXCEPT !.deletions = @ + 1,
                     !.errors = Append(@, PhonemeError(i - 1, ref[i], None, "deletion", 0,
                                                       <<"Missing phoneme", ref[i], i>>))]
    ELSE LET sim == sims[i]
             user_phoneme == IF i - 1 < Len(user) THEN user[i] ELSE None
             class == ClassifySimilarity(sim)
         IN  IF class = "correct"
             THEN [acc EXCEPT !.correct = @ + 1]
             ELSE IF class = "weak"
             THEN [acc EXCEPT !.weak = @ + 1,
                              !.errors = Append(@, PhonemeError(i - 1, ref[i], user_phoneme,
                                                   "weak", sim, <<"needs improvement", ref[i], sim>>))]
             ELSE [acc EXCEPT !.substitutions = @ + 1,
                              !.errors = Append(@, PhonemeError(i - 1, ref[i], user_phoneme,
                                                   "substitution", sim,
                                                   <<"You said", user_phoneme, "instead of", ref[i]>>))]

RECURSIVE PerLoop(_, _, _, _, _)
PerLoop(acc, ref, user, sims, i) ==
    IF i > Len(ref) THEN acc
    ELSE PerLoop(PerStep(acc, ref, user, sims, i), ref, user, sims, i + 1)

\* "if total_user > total_ref": the surplus user phonemes, positions
\* total_ref .. total_user - 1.
InsertionErrors(ref, user) ==
    IF Len(user) > Len(ref)
    THEN [k \in 1..(Len(user) - Len(ref)) |->
            PhonemeError(Len(ref) + k - 1, None, user[Len(ref) + k], "insertion", 0,
                         <<"Extra phoneme", user[Len(ref) + k], Len(ref) + k>>)]
    ELSE <<>>

\* round(n / d, 3) in thousandths: the nearest thousandth, a tie going to the
\* even one.  (n / d is a tie only when 16 divides d, and is then exact in
\* binary, so that Python's round sees the tie as well.)
RoundMilli(n, d) ==
    LET q == (1000 * n) \div d
        r == (1000 * n) % d
    IN  IF 2 * r > d THEN q + 1
        ELSE IF 2 * r < d THEN q
        ELSE IF q % 2 = 0 THEN q ELSE q + 1

\* Bug variant: the insertions are left out of the error rate.
PerScoreWithoutInsertions(substitutions, deletions, insertions, total_ref) ==
    RoundMilli(substitutions + deletions, total_ref)

\* per = (substitutions + deletions + insertions) / total_ref, reported as
\* round(per, 3); the value is in thousandths.
PerScore(substitutions, deletions, insertions, total_ref) ==
    RoundMilli(substitutions + deletions + insertions, total_ref)

\* Bug variant: the score is not floored at 0.
AdjustedScoreUnfloored(substitutions, deletions, insertions, weak) ==
    100 - (substitutions * PENALTY_SUBSTITUTION + deletions * PENALTY_DELETION
           + insertions * PENALTY_INSERTION + weak * PENALTY_WEAK_PHONEME)

AdjustedScore(substitutions, deletions, insertions, weak) ==
    LET penalty_total == substitutions * PENALTY_SUBSTITUTION
                         + deletions * PENALTY_DELETION
                         + insertions * PENALTY_INSERTION
                         + weak * PENALTY_WEAK_PHONEME
    IN  Max(0, 100 - penalty_total)

\* The summary tier; per is compared unrounded: per < 0.15 is 100 * n < 15 * d.
PerSummary(substitutions, deletions, insertions, weak, total_ref) ==
    LET n == substitutions + deletions + insertions
    IN  IF n = 0 /\ weak = 0 THEN "Excellent"
        ELSE IF n = 0 THEN "Good pronunciation"
        ELSE IF 100 * n < 15 * total_ref THEN "Good attempt"
        ELSE IF 100 * n < 30 * total_ref THEN "Partial match"
        ELSE "Needs practice"

calculate_per(ref, user, sims) ==
    IF Len(ref) = 0
    THEN [per_score |-> 0, adjusted_score |-> 100, total_phonemes |-> 0,
          correct_count |-> 0, substitutions |-> 0, deletions |-> 0,
          insertions |-> 0, weak_count |-> 0, errors |-> <<>>,
          summary |-> "No phonemes to evaluate"]
    ELSE LET acc == PerLoop([correct |-> 0, substitutions |-> 0, deletions |-> 0,
                             weak |-> 0, errors |-> <<>>], ref, user, sims, 1)
             insertions == IF Len(user) > Len(ref) THEN Len(user) - Len(ref) ELSE 0
         IN  [per_score |-> PerScore(acc.substitutions, acc.deletions, insertions, Len(ref)),
              adjusted_score |-> AdjustedScore(acc.substitutions, acc.deletions,
                                               insertions, acc.weak),
              total_phonemes |-> Len(ref),
              correct_count |-> acc.correct,
              substitutions |-> acc.substitutions,
              deletions |-> acc.deletions,
              insertions |-> insertions,
              weak_count |-> acc.weak,
              errors |-> acc.errors \o InsertionErrors(ref, user),
              summary |-> PerSummary(acc.substitutions, acc.deletions, insertions,
                                     acc.weak, Len(ref))]

(***************************************************************************)
(* Calls of calculate_per                                                  *)
(***************************************************************************)
MaxRef == 3

MaxUser == 3

MaxSims == 3

FloorRefLen == 11

ARPABET == <<"DH", "AH", "K", "AE", "T">>

\* The reference sequence of n phonemes: DH AH K AE T DH AH ...
RefOfLen(n) == [i \in 1..n |-> ARPABET[((i - 1) % Len(ARPABET)) + 1]]

\* Similarities on both sides of each threshold.
SimValues == {59, 60, 84, 85}

Rep(x, n) == [i \in 1..n |-> x]

\* The scored examples of the specification, and a reference long enough for
\* the penalties to exceed 100.
PerScenarios ==
    { [ref |-> RefOfLen(5), user |-> RefOfLen(5), sims |-> Rep(90, 5)],
      [ref |-> RefOfLen(5), user |-> RefOfLen(3), sims |-> Rep(90, 3)],
      [ref |-> RefOfLen(5), user |-> RefOfLen(5), sims |-> <<50, 100, 100, 100, 100>>],
      [ref |-> RefOfLen(5), user |-> RefOfLen(5), sims |-> <<100, 100, 50, 100, 100>>],
      [ref |-> RefOfLen(FloorRefLen), user |-> <<>>, sims |-> <<>>] }

PerInputs ==
    [ref : {RefOfLen(n) : n \in 0..MaxRef},
     user : SeqsUpTo({"K", "T"}, MaxUser),
     sims : SeqsUpTo(SimValues, MaxSims)] \cup PerScenarios

InitPer ==
    /\ pc = "call"
    /\ \E in \in PerInputs :
          /\ reference_phonemes = in.ref
          /\ user_phonemes = in.user
          /\ similarity_scores = in.sims
    /\ per_result = None
    /\ IdleEdit
    /\ IdleHalluc
    /\ IdleWords
    /\ IdleGate
    /\ IdleLetters
    /\ IdleSummary
    /\ IdleThreads
    /\ IdleDetector
    /\ IdleTips
    /\ IdleDiff
    /\ IdleLocations
    /\ IdleValidator
    /\ IdleSingletons

CallCalculatePer ==
    /\ pc = "call"
    /\ per_result' = calculate_per(reference_phonemes, user_phonemes, similarity_scores)
    /\ pc' = "return"
    /\ UNCHANGED <<reference_phonemes, user_phonemes, similarity_scores, editVars, hallucVars, wordVars, gateVars, letterVars, summaryVars, threadVars, detectorVars, tipVars, diffVars, locationVars, validatorVars, singletonVars>>

NextPer == CallCalculatePer

SpecPer == InitPer /\ [][NextPer]_vars

(***************************************************************************)
(* Claims about calculate_per                                              *)
(***************************************************************************)
ErrorsAt(pos) ==
    {k \in 1..Len(per_result.errors) : per_result.errors[k].position = pos}

\* Position pos holds exactly one error record, of the given type.
OneErrorAt(pos, type) ==
    /\ Cardinality(ErrorsAt(pos)) = 1
    /\ \A k \in ErrorsAt(pos) : per_result.errors[k].error_type = type

\* What the claim says about reference position i (0-based).
ReferencePositionClassified(i) ==
    IF i >= Len(similarity_scores) THEN OneErrorAt(i, "deletion")
    ELSE IF similarity_scores[i + 1] >= 85 THEN ErrorsAt(i) = {}
    ELSE IF similarity_scores[i + 1] >= 60 THEN OneErrorAt(i, "weak")
    ELSE OneErrorAt(i, "substitution")

PositionsClassified ==
    LET N == Len(reference_phonemes)
        U == Len(user_phonemes)
        K == Len(similarity_scores)
    IN  /\ \A i \in 0..(N - 1) : ReferencePositionClassified(i)
        /\ \A i \in N..(U - 1) : OneErrorAt(i, "insertion")
        /\ \A k \in 1..Len(per_result.errors) :
              per_result.errors[k].position \in 0..(Max(N, U) - 1)
        /\ per_result.correct_count =
              Cardinality({i \in 1..Min(N, K) : similarity_scores[i] >= 85})
        /\ K < N =>
              {per_result.errors[k].position :
                  k \in {j \in 1..Len(per_result.errors) :
                            per_result.errors[j].error_type = "deletion"}} = K..(N - 1)

\* C5 as stated: every reference position is classified exactly once and every
\* surplus user position N..len(user)-1 records an insertion, for every input.
C5_AsStated == pc = "return" => PositionsClassified

\* C5 (amended): for N > 0 reference phonemes, each reference position i is
\* classified exactly once (no similarity at i: deletion; >= 0.85: correct, no
\* record; [0.60, 0.85): weak; < 0.60: substitution) and each surplus user
\* position N..len(user)-1 records an insertion, so k < N similarity values
\* give N-k deletions at positions k..N-1; for N = 0 there is no record at all.
C5_PositionsClassified ==
    pc = "return" =>
        IF Len(reference_phonemes) > 0 THEN PositionsClassified
        ELSE per_result.errors = <<>>

\* Two reference phonemes, one similarity in the weak band, three user
\* phonemes: a weak record, a deletion and an insertion, one per position.
C5_Witness ==
    /\ pc = "return"
    /\ Len(reference_phonemes) = 2
    /\ similarity_scores = <<84>>
    /\ Len(user_phonemes) = 3
    /\ Len(per_result.errors) = 3
    /\ per_result.errors[1].error_type = "weak"
    /\ per_result.errors[2].error_type = "deletion"
    /\ per_result.errors[3].error_type = "insertion"

PerErrorCount == per_result.substitutions + per_result.deletions + per_result.insertions

PerEmptyReference ==
    Len(reference_phonemes) = 0 =>
        /\ per_result.per_score = 0
        /\ per_result.adjusted_score = 100
        /\ per_result.total_phonemes = 0
        /\ per_result.correct_count = 0
        /\ per_result.substitutions = 0
        /\ per_result.deletions = 0
        /\ per_result.insertions = 0
        /\ per_result.weak_count = 0

PerAllCorrectExample ==
    (Len(reference_phonemes) = 5 /\ similarity_scores = <<90, 90, 90, 90, 90>>
        /\ Len(user_phonemes) <= 5) =>
        /\ per_result.per_score = 0
        /\ per_result.adjusted_score = 100
        /\ per_result.correct_count = 5
        /\ per_result.errors = <<>>

\* C6 as stated: per_score is exactly (substitutions + deletions + insertions) / N.
C6_AsStated ==
    pc = "return" =>
        /\ Len(reference_phonemes) > 0 =>
              per_result.per_score * Len(reference_phonemes) = 1000 * PerErrorCount
        /\ PerEmptyReference
        /\ PerAllCorrectExample

\* C6 (amended): for N > 0, per_score is (substitutions + deletions +
\* insertions) / N rounded to three decimals (the nearest thousandth); for
\* N = 0 it is 0 with adjusted_score 100 and all counts 0 whatever the other
\* arguments; five reference phonemes with five similarities of 0.9 give
\* per_score 0, adjusted_score 100 and five correct phonemes.
C6_PerScoreRounded ==
    pc = "return" =>
        /\ Len(reference_phonemes) > 0 =>
              LET N == Len(reference_phonemes)
                  diff == 1000 * PerErrorCount - per_result.per_score * N
              IN  /\ 2 * diff <= N
                  /\ 2 * diff >= -N
                  /\ per_result.total_phonemes = N
        /\ PerEmptyReference
        /\ PerAllCorrectExample

\* One substitution among three reference phonemes: 1/3 is reported as 0.333.
C6_Witness ==
    /\ pc = "return"
    /\ Len(reference_phonemes) = 3
    /\ Len(user_phonemes) = 3
    /\ similarity_scores = <<85, 59, 85>>
    /\ PerErrorCount = 1
    /\ per_result.per_score = 333

\* C7: adjusted_score = max(0, 100 - (5*substitutions + 10*deletions +
\* 3*insertions + 2*weak_count)), an integer in [0,100], for every input; one
\* substitution (similarity 0.5) among five phonemes whose others score 1.0
\* gives per_score 0.2 and adjusted_score 95.
C7_AdjustedScore ==
    pc = "return" =>
        LET penalty == 5 * per_result.substitutions + 10 * per_result.deletions
                       + 3 * per_result.insertions + 2 * per_result.weak_count
        IN  /\ per_result.adjusted_score = (IF penalty >= 100 THEN 0 ELSE 100 - penalty)
            /\ per_result.adjusted_score \in 0..100
            /\ (/\ Len(reference_phonemes) = 5
                /\ Len(similarity_scores) = 5
                /\ Len(user_phonemes) <= 5
                /\ Cardinality({i \in 1..5 : similarity_scores[i] = 50}) = 1
                /\ Cardinality({i \in 1..5 : similarity_scores[i] = 100}) = 4)
               => /\ per_result.per_score = 200
                  /\ per_result.adjusted_score = 95
                  /\ per_result.substitutions = 1

\* Eleven deletions cost 110 points: the score is floored at 0.
C7_Witness ==
    /\ pc = "return"
    /\ per_result.deletions = 11
    /\ per_result.adjusted_score = 0

\* C8: the per_score of every PERResult lies in [0,1], for every combination of
\* reference phonemes, user phonemes (also longer than the reference) and
\* similarity values.
C8_PerScoreInUnitInterval ==
    pc = "return" => (per_result.per_score >= 0 /\ per_result.per_score <= 1000)

(***************************************************************************)
(* Text: characters, str.lower, str.strip, str.split                       *)
(***************************************************************************)
LowerLetters == <<"a", "b", "c", "d", "e", "f", "g", "h", "i", "j", "k", "l", "m",
                  "n", "o", "p", "q", "r", "s", "t", "u", "v", "w", "x", "y", "z">>

UpperLetters == <<"A", "B", "C", "D", "E", "F", "G", "H", "I", "J", "K", "L", "M",
                  "N", "O", "P", "Q", "R", "S", "T", "U", "V", "W", "X", "Y", "Z">>

IndexIn(seq, c) == CHOOSE i \in 1..Len(seq) : seq[i] = c

IsIn(seq, c) == \E i \in 1..Len(seq) : seq[i] = c

\* ord(c) for the characters the model uses.
Ord(c) ==
    IF c = "\n" THEN 10
    ELSE IF c = " " THEN 32
    ELSE IF c = "-" THEN 45
    ELSE IF IsIn(UpperLetters, c) THEN 64 + IndexIn(UpperLetters, c)
    ELSE IF IsIn(LowerLetters, c) THEN 96 + IndexIn(LowerLetters, c)
    ELSE 233   \* "é"

IsWhitespace(c) == c \in {" ", "\n"}

\* c.lower() for each upper-case letter c
LowerOf == [c \in {UpperLetters[i] : i \in 1..Len(UpperLetters)} |->
               LowerLetters[IndexIn(UpperLetters, c)]]

LowerChar(c) == IF c \in DOMAIN LowerOf THEN LowerOf[c] ELSE c

\* str.lower()
Lower(s) == [i \in 1..Len(s) |-> LowerChar(s[i])]

\* str.strip(): leading and trailing whitespace removed
Strip(s) ==
    LET keep == {i \in 1..Len(s) : ~IsWhitespace(s[i])}
    IN  IF keep = {} THEN <<>>
        ELSE LET lo == CHOOSE i \in keep : \A j \in keep : i <= j
                 hi == CHOOSE i \in keep : \A j \in keep : i >= j
             IN  SubSeq(s, lo, hi)

\* str.split(): the maximal runs of non-whitespace characters, in order
RECURSIVE SplitFrom(_, _, _, _)
SplitFrom(s, i, word, words) ==
    IF i > Len(s) THEN (IF word = <<>> THEN words ELSE Append(words, word))
    ELSE IF IsWhitespace(s[i])
         THEN SplitFrom(s, i + 1, <<>>, IF word = <<>> THEN words ELSE Append(words, word))
         ELSE SplitFrom(s, i + 1, Append(word, s[i]), words)

Split(s) == SplitFrom(s, 1, <<>>, <<>>)

Count(seq, x) == Cardinality({i \in 1..Len(seq) : seq[i] = x})

(***************************************************************************)
(* asr_validator.py: _is_hallucination                                     *)
(***************************************************************************)
NON_ASCII_ABOVE == 127

MIN_TEXT_LEN == 3

REPEAT_RUN == 6

MIN_WORDS_ABOVE == 3

LONG_TEXT_ABOVE == 50

\* re.search(r'(.)\1{5,}', text): a character that "." matches (any but the
\* line break) followed by five more copies of itself.
HasRepeatedChar(s) ==
    \E i \in 1..(Len(s) - (REPEAT_RUN - 1)) :
        /\ s[i] # "\n"
        /\ \A k \in 1..(REPEAT_RUN - 1) : s[i + k] = s[i]

\* Counter(words).most_common(1)[0][1]
MostCommonCount(words) ==
    CHOOSE n \in 1..Len(words) :
        /\ \E i \in 1..Len(words) : Count(words, words[i]) = n
        /\ \A i \in 1..Len(words) : Count(words, words[i]) <= n

\* Bug variant: the short-text exit is missing.
IsHallucinationNoShortExit(s) ==
    LET non_ascii == Cardinality({i \in 1..Len(s) : Ord(s[i]) > NON_ASCII_ABOVE})
        words == Split(s)
    IN  IF Len(s) = 0 THEN FALSE
        ELSE IF 10 * non_ascii > 3 * Len(s) THEN TRUE
        ELSE IF HasRepeatedChar(s) THEN TRUE
        ELSE IF Len(words) > MIN_WORDS_ABOVE /\ 2 * MostCommonCount(words) > Len(words)
             THEN TRUE
        ELSE IF Len(s) > LONG_TEXT_ABOVE /\ ~IsIn(s, " ") THEN TRUE
        ELSE FALSE

\* non_ascii / len(text) > 0.3 is 10 * non_ascii > 3 * len(text);
\* most_common_count / len(words) > 0.5 is 2 * most_common_count > len(words).
is_hallucination(s) ==
    LET non_ascii == Cardinality({i \in 1..Len(s) : Ord(s[i]) > NON_ASCII_ABOVE})
        words == Split(s)
    IN  IF Len(s) = 0 \/ Len(s) < MIN_TEXT_LEN THEN FALSE
        ELSE IF 10 * non_ascii > 3 * Len(s) THEN TRUE
        ELSE IF HasRepeatedChar(s) THEN TRUE
        ELSE IF Len(words) > MIN_WORDS_ABOVE /\ 2 * MostCommonCount(words) > Len(words)
             THEN TRUE
        ELSE IF Len(s) > LONG_TEXT_ABOVE /\ ~IsIn(s, " ") THEN TRUE
        ELSE FALSE

(***************************************************************************)
(* Calls of _is_hallucination                                              *)
(***************************************************************************)
MaxTextLen == 7

HallucAlphabet == {"a", "é", " ", "\n"}

RECURSIVE Concat(_)
Concat(seqs) == IF seqs = <<>> THEN <<>> ELSE Head(seqs) \o Concat(Tail(seqs))

SHE == <<"s", "h", "e">>

SELLS == <<"s", "e", "l", "l", "s">>

SELL == <<"s", "e", "l", "l">>

SEASHELLS == <<"s", "e", "a", "s", "h", "e", "l", "l", "s">>

SP == <<" ">>

SheSellsSeashells == Concat(<<SHE, SP, SELLS, SP, SEASHELLS>>)

SheSellSeashells == Concat(<<SHE, SP, SELL, SP, SEASHELLS>>)

BySeashore ==
    SheSellsSeashells \o <<" ", "b", "y", " ", "t", "h", "e", " ",
                           "s", "e", "a", "s", "h", "o", "r", "e">>

\* 60 times "é"; 51 and 50 letters with no space and no long run; 51 letters
\* and one space.
HallucScenarios ==
    { Rep("é", 60),
      BySeashore,
      [i \in 1..51 |-> IF i % 2 = 1 THEN "a" ELSE "b"],
      [i \in 1..50 |-> IF i % 2 = 1 THEN "a" ELSE "b"],
      [i \in 1..52 |-> IF i = 26 THEN " " ELSE IF i % 2 = 1 THEN "a" ELSE "b"] }

HallucInputs == SeqsUpTo(HallucAlphabet, MaxTextLen) \cup HallucScenarios

InitHalluc ==
    /\ pc = "call"
    /\ text \in HallucInputs
    /\ halluc_result = None
    /\ IdleEdit
    /\ IdlePer
    /\ IdleWords
    /\ IdleGate
    /\ IdleLetters
    /\ IdleSummary
    /\ IdleThreads
    /\ IdleDetector
    /\ IdleTips
    /\ IdleDiff
    /\ IdleLocations
    /\ IdleValidator
    /\ IdleSingletons

CallIsHallucination ==
    /\ pc = "call"
    /\ halluc_result' = is_hallucination(text)
    /\ pc' = "return"
    /\ UNCHANGED <<text, editVars, perVars, wordVars, gateVars, letterVars, summaryVars, threadVars, detectorVars, tipVars, diffVars, locationVars, validatorVars, singletonVars>>

NextHalluc == CallIsHallucination

SpecHalluc == InitHalluc /\ [][NextHalluc]_vars

\* The four conditions of the claim, read off the text.
NonAsciiRatioHigh ==
    10 * Cardinality({i \in 1..Len(text) : text[i] = "é"}) > 3 * Len(text)

SomeCharSixTimes ==
    \E i \in 1..Len(text), j \in 1..Len(text) :
        j - i >= 5 /\ \A k \in i..j : text[k] = text[i]

SomeNonBreakCharSixTimes ==
    \E i \in 1..Len(text), j \in 1..Len(text) :
        j - i >= 5 /\ text[i] # "\n" /\ \A k \in i..j : text[k] = text[i]

OneWordDominates ==
    LET words == Split(text)
    IN  /\ Len(words) > 3
        /\ \E w \in {words[i] : i \in 1..Len(words)} : 2 * Count(words, w) > Len(words)

LongWithoutSpace == Len(text) > 50 /\ \A i \in 1..Len(text) : text[i] # " "

HallucExamples ==
    /\ text = Rep("é", 60) => halluc_result = TRUE
    /\ text = BySeashore => halluc_result = FALSE

WORD_NOT_FOUND == <<"-">>

\* The unused estimated index with the least edit distance to real_word, the
\* first one on a tie ("if dist < best_dist"); -1 with distance -1 if none.
RECURSIVE FallbackBest(_, _, _, _, _, _)
FallbackBest(words_estimated, real_word, used, i, best_idx, best_dist) ==
    IF i > Len(words_estimated) THEN <<best_idx, best_dist>>
    ELSE IF (i - 1) \in used
         THEN FallbackBest(words_estimated, real_word, used, i + 1, best_idx, best_dist)
         ELSE LET dist == edit_distance(Lower(words_estimated[i]), Lower(real_word))
              IN  IF best_idx = -1 \/ dist < best_dist
                  THEN FallbackBest(words_estimated, real_word, used, i + 1, i - 1, dist)
                  ELSE FallbackBest(words_estimated, real_word, used, i + 1, best_idx, best_dist)

RECURSIVE FallbackLoop(_, _, _, _, _)
FallbackLoop(words_estimated, words_real, j, mapped_indices, used) ==
    IF j > Len(words_real) THEN mapped_indices
    ELSE LET best == FallbackBest(words_estimated, words_real[j], used, 1, -1, -1)
         IN  IF best[1] >= 0 /\ best[2] < Len(words_real[j])
             THEN FallbackLoop(words_estimated, words_real, j + 1,
                               Append(mapped_indices, best[1]), used \cup {best[1]})
             ELSE FallbackLoop(words_estimated, words_real, j + 1,
                               Append(mapped_indices, -1), used)

fallback_alignment(words_estimated, words_real) ==
    FallbackLoop(words_estimated, words_real, 1, <<>>, {})

\* alignment.get_warping_path()[:len(words_estimated)]: the DTW library is not
\* part of the repository; all the code fixes is that at most
\* len(words_estimated) entries are kept.  An entry outside
\* 0..len(words_real)-1 never equals a word_idx, so len(words_real) stands for
\* every such value.
DtwPaths(words_estimated, words_real) ==
    SeqsUpTo(0..Len(words_real), Len(words_estimated))

\* np.where(mapped_indices == word_idx)[0], ascending
Positions(mapped_indices, word_idx) ==
    {p \in 0..(Len(mapped_indices) - 1) : mapped_indices[p + 1] = word_idx}

\* "Multiple matches - pick best one": the position below len(words_estimated)
\* with the least edit distance, the lowest one on a tie.
BestPosition(words_estimated, real_word, positions) ==
    LET ok == {p \in positions : p < Len(words_estimated)}
        dist(p) == edit_distance(Lower(words_estimated[p + 1]), Lower(real_word))
    IN  IF ok = {} THEN -1
        ELSE CHOOSE p \in ok :
                \A q \in ok : dist(p) < dist(q) \/ (dist(p) = dist(q) /\ p <= q)

\* Bug variant: the array is read as "estimated index of each real word".
MappedIndexByValue(words_estimated, words_real, mapped_indices, word_idx) ==
    IF word_idx < Len(mapped_indices)
       /\ mapped_indices[word_idx + 1] \in 0..(Len(words_estimated) - 1)
    THEN mapped_indices[word_idx + 1]
    ELSE -1

\* The index into words_estimated chosen for real word word_idx (-1: none).
MappedIndex(words_estimated, words_real, mapped_indices, word_idx) ==
    LET positions == Positions(mapped_indices, word_idx)
    IN  IF positions = {} THEN -1
        ELSE IF Cardinality(positions) = 1
             THEN LET idx == CHOOSE p \in positions : TRUE
                  IN  IF idx < Len(words_estimated) THEN idx ELSE -1
             ELSE BestPosition(words_estimated, words_real[word_idx + 1], positions)

\* get_mapped_words once align_words_dtw has returned mapped_indices
MappedWords(words_estimated, words_real, mapped_indices) ==
    LET idx(j) == MappedIndex(words_estimated, words_real, mapped_indices, j - 1)
    IN  [words |-> [j \in 1..Len(words_real) |->
                       IF idx(j) = -1 THEN WORD_NOT_FOUND ELSE words_estimated[idx(j) + 1]],
         indices |-> [j \in 1..Len(words_real) |-> idx(j)]]

\* get_mapped_words; outcome is what align_words_dtw returns if it is called
get_mapped_words(words_estimated, words_real, outcome) ==
    IF Len(words_real) = 0 THEN [words |-> <<>>, indices |-> <<>>]
    ELSE IF Len(words_estimated) = 0
         THEN [words |-> [j \in 1..Len(words_real) |-> WORD_NOT_FOUND],
               indices |-> [j \in 1..Len(words_real) |-> -1]]
         ELSE MappedWords(words_estimated, words_real, outcome.indices)

\* The entry of expected word i (1-based; position i - 1)
ComparisonEntry(expected, actual, idx, i) ==
    LET distance == edit_distance(Lower(expected), Lower(actual))
        max_len == Max(Len(expected), Len(actual))
        status == IF actual = WORD_NOT_FOUND THEN "missing"
                  ELSE IF Strip(Lower(expected)) = Strip(Lower(actual)) THEN "correct"
                  ELSE IF max_len > 0 /\ 2 * (max_len - distance) > max_len THEN "partial"
                  ELSE "wrong"
        similarity == IF status = "missing" THEN 0
                      ELSE IF status = "correct" THEN 1000
                      ELSE IF max_len > 0 THEN RoundMilli(max_len - distance, max_len)
                      ELSE 0
    IN  [position |-> i - 1, expected |-> expected, actual |-> actual,
         actual_index |-> idx, status |-> status, similarity |-> similarity,
         is_match |-> (status = "correct"), is_missing |-> (status = "missing"),
         is_wrong |-> (status \in {"wrong", "partial"})]

ExtraEntry(word, i) ==
    [position |-> -1, expected |-> <<>>, actual |-> word, actual_index |-> i,
     status |-> "extra", similarity |-> 0, is_match |-> FALSE, is_missing |-> FALSE,
     is_wrong |-> TRUE, is_extra |-> TRUE]

RECURSIVE ExtraFrom(_, _, _)
ExtraFrom(actual, used_indices, i) ==
    IF i > Len(actual) THEN <<>>
    ELSE (IF (i - 1) \in used_indices THEN <<>> ELSE <<ExtraEntry(actual[i], i - 1)>>)
         \o ExtraFrom(actual, used_indices, i + 1)

\* "Check for extra words (insertions)"
ExtraEntries(actual, mapped_indices) ==
    ExtraFrom(actual,
              {mapped_indices[j] : j \in {k \in 1..Len(mapped_indices) : mapped_indices[k] >= 0}},
              1)

compare_word_sequences(expected, actual, outcome) ==
    LET mapped == get_mapped_words(actual, expected, outcome)
    IN  [i \in 1..Len(expected) |->
            ComparisonEntry(expected[i],
                            IF i <= Len(mapped.words) THEN mapped.words[i] ELSE WORD_NOT_FOUND,
                            IF i <= Len(mapped.indices) THEN mapped.indices[i] ELSE -1,
                            i)]
        \o ExtraEntries(actual, mapped.indices)

\* Whether get_mapped_words reaches align_words_dtw
AlignerCalled(words_estimated, words_real) ==
    Len(words_real) > 0 /\ Len(words_estimated) > 0

(***************************************************************************)
(* word_matcher.py: get_word_match_summary                                 *)
(***************************************************************************)
CountStatus(results, status) ==
    Cardinality({k \in 1..Len(results) : results[k].status = status})

\* Bug variant: the extra entries are counted as expected words.
WordMatchSummaryCountingExtras(results) ==
    LET total == Len(results)
        correct == CountStatus(results, "correct")
        extra == CountStatus(results, "extra")
    IN  [total_expected |-> total,
         correct |-> correct,
         partial |-> CountStatus(results, "partial"),
         wrong |-> CountStatus(results, "wrong"),
         missing |-> CountStatus(results, "missing"),
         extra |-> extra,
         accuracy |-> IF total > 0 THEN RoundMilli(correct, total) ELSE 0,
         is_perfect |-> (correct = total /\ extra = 0)]

\* accuracy is round(correct / total * 100, 1), kept in tenths of a percent
get_word_match_summary(results) ==
    LET total == Len(results) - CountStatus(results, "extra")
        correct == CountStatus(results, "correct")
        extra == CountStatus(results, "extra")
    IN  [total_expected |-> total,
         correct |-> correct,
         partial |-> CountStatus(results, "partial"),
         wrong |-> CountStatus(results, "wrong"),
         missing |-> CountStatus(results, "missing"),
         extra |-> extra,
         accuracy |-> IF total > 0 THEN RoundMilli(correct, total) ELSE 0,
         is_perfect |-> (correct = total /\ extra = 0)]

(***************************************************************************)
(* Calls of compare_word_sequences                                         *)
(***************************************************************************)
MaxWords == 2

WordChoices == {<<"a">>, <<"A", "b">>, <<"-">>}

\* One word heard of three expected: a third is not a whole number of tenths
\* of a percent.
OneOfThree == [expected |-> << <<"a">>, <<"A", "b">>, <<"a">> >>, actual |-> << <<"a">> >>]

WordLists == SeqsUpTo(WordChoices, MaxWords)

WordCalls == [expected : WordLists, actual : WordLists] \cup {OneOfThree}

InitWords ==
    /\ pc = "call"
    /\ \E c \in WordCalls : expected_words = c.expected /\ actual_words = c.actual
    /\ alignment = None
    /\ comparison = None
    /\ IdleEdit
    /\ IdlePer
    /\ IdleHalluc
    /\ IdleGate
    /\ IdleLetters
    /\ IdleSummary
    /\ IdleThreads
    /\ IdleDetector
    /\ IdleTips
    /\ IdleDiff
    /\ IdleLocations
    /\ IdleValidator
    /\ IdleSingletons

\* compare_word_sequences when get_mapped_words returns before aligning
CallCompareNoAlignment ==
    /\ pc = "call"
    /\ ~AlignerCalled(actual_words, expected_words)
    /\ alignment' = [kind |-> "none", indices |-> <<>>]
    /\ comparison' = compare_word_sequences(expected_words, actual_words, alignment')
    /\ pc' = "return"
    /\ UNCHANGED <<expected_words, actual_words, editVars, perVars, hallucVars, gateVars, letterVars, summaryVars, threadVars, detectorVars, tipVars, diffVars, locationVars, validatorVars, singletonVars>>

\* compare_word_sequences with the DTW library's path
CallCompareDtw ==
    /\ pc = "call"
    /\ AlignerCalled(actual_words, expected_words)
    /\ \E m \in DtwPaths(actual_words, expected_words) :
          alignment' = [kind |-> "dtw", indices |-> m]
    /\ comparison' = compare_word_sequences(expected_words, actual_words, alignment')
    /\ pc' = "return"
    /\ UNCHANGED <<expected_words, actual_words, editVars, perVars, hallucVars, gateVars, letterVars, summaryVars, threadVars, detectorVars, tipVars, diffVars, locationVars, validatorVars, singletonVars>>

\* compare_word_sequences when the DTW library is missing or throws
CallCompareFallback ==
    /\ pc = "call"
    /\ AlignerCalled(actual_words, expected_words)
    /\ alignment' = [kind |-> "fallback",
                     indices |-> fallback_alignment(actual_words, expected_words)]
    /\ comparison' = compare_word_sequences(expected_words, actual_words, alignment')
    /\ pc' = "return"
    /\ UNCHANGED <<expected_words, actual_words, editVars, perVars, hallucVars, gateVars, letterVars, summaryVars, threadVars, detectorVars, tipVars, diffVars, locationVars, validatorVars, singletonVars>>

\* get_word_match_summary on the list compare_word_sequences returned
CallGetWordMatchSummary ==
    /\ pc = "return"
    /\ summary' = get_word_match_summary(comparison)
    /\ pc' = "summarised"
    /\ UNCHANGED <<wordVars, editVars, perVars, hallucVars, gateVars, letterVars, threadVars, detectorVars, tipVars, diffVars, locationVars, validatorVars, singletonVars>>

NextWords ==
    \/ CallCompareNoAlignment
    \/ CallCompareDtw
    \/ CallCompareFallback
    \/ CallGetWordMatchSummary

SpecWords == InitWords /\ [][NextWords]_vars

\* C10: compare_word_sequences returns exactly one non-extra entry per
\* reference word, in reference order with positions 0..n-1, followed by
\* exactly one 'extra' entry for every transcribed index not selected for any
\* reference word; no transcribed index is the actual_index of more than one
\* entry.  For every index mapping the aligner can produce, DTW or fallback.
C10_OneEntryPerWord ==
    pc = "return" =>
        LET n == Len(expected_words)
            m == Len(actual_words)
            selected == {comparison[i].actual_index : i \in 1..n} \ {-1}
            extras == {k \in 1..Len(comparison) : comparison[k].status = "extra"}
        IN  /\ Len(comparison) >= n
            /\ \A i \in 1..n :
                  /\ comparison[i].status # "extra"
                  /\ comparison[i].position = i - 1
                  /\ comparison[i].expected = expected_words[i]
                  /\ comparison[i].actual_index \in -1..(m - 1)
            /\ extras = (n + 1)..Len(comparison)
            /\ {comparison[k].actual_index : k \in extras} = (0..(m - 1)) \ selected
            /\ \A k \in extras :
                  comparison[k].actual = actual_words[comparison[k].actual_index + 1]
            /\ \A i, j \in 1..Len(comparison) :
                  (i # j /\ comparison[i].actual_index = comparison[j].actual_index)
                      => comparison[i].actual_index = -1

\* Two reference words, two transcribed words, both mapped by the DTW path to
\* the first reference word: one is selected, the other becomes an extra entry
\* after the two reference entries.
C10_Witness ==
    /\ pc = "return"
    /\ alignment = [kind |-> "dtw", indices |-> <<0, 0>>]
    /\ expected_words = << <<"a">>, <<"A", "b">> >>
    /\ actual_words = << <<"A", "b">>, <<"a">> >>
    /\ Len(comparison) = 3
    /\ comparison[1].actual_index = 1
    /\ comparison[2].status = "missing"
    /\ comparison[3].status = "extra"
    /\ comparison[3].actual_index = 0

(***************************************************************************)
(* difflib.SequenceMatcher(None, a, b), as asr_validator.py uses it.       *)
(*                                                                         *)
(* Indices are the library's: 0-based, windows half-open (alo <= i < ahi). *)
(* The library's "autojunk" heuristic only acts when b has 200 or more     *)
(* elements; the sequences here are shorter, so no element is junk.        *)
(***************************************************************************)
\* Length of the common run that ends at a[i], b[j] inside the window.
RECURSIVE RunEnding(_, _, _, _, _, _)
RunEnding(a, b, i, j, alo, blo) ==
    IF i < alo \/ j < blo THEN 0
    ELSE IF a[i + 1] # b[j + 1] THEN 0
    ELSE 1 + RunEnding(a, b, i - 1, j - 1, alo, blo)

\* find_longest_match: the longest block a[i:i+k] = b[j:j+k] in the window;
\* of the longest ones the first the scan meets (i ascending, then j
\* ascending), i.e. the one starting earliest in a, then earliest in b.
\* <<alo, blo, 0>> if there is none.
find_longest_match(a, b, alo, ahi, blo, bhi) ==
    LET ends == {e \in (alo..(ahi - 1)) \X (blo..(bhi - 1)) : a[e[1] + 1] = b[e[2] + 1]}
        sized == {<<RunEnding(a, b, e[1], e[2], alo, blo), e[1], e[2]>> : e \in ends}
    IN  IF sized = {} THEN <<alo, blo, 0>>
        ELSE LET best == CHOOSE s \in sized :
                            \A t \in sized :
                               \/ s[1] > t[1]
                               \/ s[1] = t[1] /\ s[2] < t[2]
                               \/ s[1] = t[1] /\ s[2] = t[2] /\ s[3] <= t[3]
             IN  <<best[2] - best[1] + 1, best[3] - best[1] + 1, best[1]>>

\* The blocks get_matching_blocks collects, in ascending order: the longest
\* match of the window, then recursively those to its left and to its right.
RECURSIVE BlocksIn(_, _, _, _, _, _)
BlocksIn(a, b, alo, ahi, blo, bhi) ==
    LET x == find_longest_match(a, b, alo, ahi, blo, bhi)
        i == x[1]
        j == x[2]
        k == x[3]
    IN  IF k = 0 THEN <<>>
        ELSE (IF alo < i /\ blo < j THEN BlocksIn(a, b, alo, i, blo, j) ELSE <<>>)
             \o <<x>>
             \o (IF i + k < ahi /\ j + k < bhi THEN BlocksIn(a, b, i + k, ahi, j + k, bhi)
                 ELSE <<>>)

\* Adjacent blocks are collapsed into one.
RECURSIVE MergeAdjacent(_, _, _)
MergeAdjacent(blocks, n, cur) ==
    IF n > Len(blocks) THEN (IF cur[3] > 0 THEN <<cur>> ELSE <<>>)
    ELSE LET x == blocks[n]
         IN  IF cur[1] + cur[3] = x[1] /\ cur[2] + cur[3] = x[2]
             THEN MergeAdjacent(blocks, n + 1, <<cur[1], cur[2], cur[3] + x[3]>>)
             ELSE (IF cur[3] > 0 THEN <<cur>> ELSE <<>>)
                  \o MergeAdjacent(blocks, n + 1, x)

\* get_matching_blocks(): the merged blocks and the closing block (la, lb, 0)
get_matching_blocks(a, b) ==
    MergeAdjacent(BlocksIn(a, b, 0, Len(a), 0, Len(b)), 1, <<0, 0, 0>>)
    \o << <<Len(a), Len(b), 0>> >>

RECURSIVE SumSizes(_)
SumSizes(blocks) == IF blocks = <<>> THEN 0 ELSE Head(blocks)[3] + SumSizes(Tail(blocks))

\* ratio(): 2.0 * matches / (len(a) + len(b)), 1.0 if both are empty
ratio(a, b) ==
    IF Len(a) + Len(b) = 0 THEN Frac(1, 1)
    ELSE Frac(2 * SumSizes(get_matching_blocks(a, b)), Len(a) + Len(b))

\* get_opcodes(): <<tag, i1, i2, j1, j2>> turning a[i1:i2] into b[j1:j2]
RECURSIVE OpcodesFrom(_, _, _, _)
OpcodesFrom(blocks, n, i, j) ==
    IF n > Len(blocks) THEN <<>>
    ELSE LET ai == blocks[n][1]
             bj == blocks[n][2]
             size == blocks[n][3]
             tag == IF i < ai /\ j < bj THEN "replace"
                    ELSE IF i < ai THEN "delete"
                    ELSE IF j < bj THEN "insert"
                    ELSE ""
         IN  (IF tag # "" THEN << <<tag, i, ai, j, bj>> >> ELSE <<>>)
             \o (IF size > 0 THEN << <<"equal", ai, ai + size, bj, bj + size>> >> ELSE <<>>)
             \o OpcodesFrom(blocks, n + 1, ai + size, bj + size)

get_opcodes(a, b) == OpcodesFrom(get_matching_blocks(a, b), 1, 0, 0)

(***************************************************************************)
(* asr_validator.py: get_word_diff, _detect_word_issue                     *)
(***************************************************************************)
StartsWith(s, prefix) ==
    Len(prefix) <= Len(s) /\ SubSeq(s, 1, Len(prefix)) = prefix

EndsWith(s, suffix) ==
    Len(suffix) <= Len(s) /\ SubSeq(s, Len(s) - Len(suffix) + 1, Len(s)) = suffix

\* "sub in s" for a non-empty sub
Contains(s, sub) ==
    \E i \in 1..(Len(s) - Len(sub) + 1) : SubSeq(s, i, i + Len(sub) - 1) = sub

\* Bug variant: the endings are not looked at.
DetectWordIssueNoEnding(user_word, expected_word) ==
    IF user_word = <<>> THEN <<"word_skipped">>
    ELSE <<"mispronounced">>

\* Bug variant: the 'th' rule is tried before the other rules.
DetectWordIssueThFirst(user_word, expected_word) ==
    IF user_word = <<>> THEN <<"word_skipped">>
    ELSE LET u == Lower(user_word)
             e == Lower(expected_word)
             diffs == {i \in 1..Min(Len(u), Len(e)) : u[i] # e[i]}
         IN  IF Contains(e, <<"t", "h">>) /\ (IsIn(u, "d") \/ IsIn(u, "t"))
             THEN <<"th_substitution">>
             ELSE IF StartsWith(e, u) /\ Len(e) > Len(u)
             THEN <<"missing_ending_", SubSeq(e, Len(u) + 1, Len(e))>>
             ELSE IF EndsWith(e, u) /\ Len(e) > Len(u)
             THEN <<"missing_beginning_", SubSeq(e, 1, Len(e) - Len(u))>>
             ELSE IF Len(u) = Len(e) /\ Cardinality(diffs) = 1
             THEN LET i == CHOOSE i \in diffs : TRUE
                  IN  <<"substituted_", e[i], "_with_", u[i]>>
             ELSE <<"mispronounced">>

\* _detect_word_issue; the f-strings are the tag followed by their fields.
\* "not user_word" holds for None and for "": both are <<>> here.
detect_word_issue(user_word, expected_word) ==
    IF user_word = <<>> THEN <<"word_skipped">>
    ELSE LET u == Lower(user_word)
             e == Lower(expected_word)
             diffs == {i \in 1..Min(Len(u), Len(e)) : u[i] # e[i]}
         IN  IF StartsWith(e, u) /\ Len(e) > Len(u)
             THEN <<"missing_ending_", SubSeq(e, Len(u) + 1, Len(e))>>
             ELSE IF EndsWith(e, u) /\ Len(e) > Len(u)
             THEN <<"missing_beginning_", SubSeq(e, 1, Len(e) - Len(u))>>
             ELSE IF Len(u) = Len(e) /\ Cardinality(diffs) = 1
             THEN LET i == CHOOSE i \in diffs : TRUE
                  IN  <<"substituted_", e[i], "_with_", u[i]>>
             ELSE IF Contains(e, <<"t", "h">>) /\ (IsIn(u, "d") \/ IsIn(u, "t"))
             THEN <<"th_substitution">>
             ELSE <<"mispronounced">>

NOTHING == <<"(", "n", "o", "t", "h", "i", "n", "g", ")">>

\* The entries one opcode contributes, in the order they are appended
DiffEntries(op, transcribed_words, expected) ==
    LET tag == op[1]
        i1 == op[2]
        i2 == op[3]
        j1 == op[4]
        j2 == op[5]
    IN  IF tag = "equal"
        THEN [idx \in 1..(j2 - j1) |->
                 [word |-> expected[j1 + idx], type |-> "correct",
                  position |-> j1 + idx - 1]]
        ELSE IF tag = "replace"
        THEN LET n == Max(i2 - i1, j2 - j1)
                 user_word(idx) ==
                     IF i1 + idx - 1 < i2 THEN transcribed_words[i1 + idx] ELSE <<>>
                 entry(idx) ==
                     [word |-> expected[j1 + idx], type |-> "wrong",
                      position |-> j1 + idx - 1,
                      user_said |-> IF user_word(idx) = <<>> THEN NOTHING
                                    ELSE user_word(idx),
                      suggestion |-> expected[j1 + idx],
                      issue |-> detect_word_issue(user_word(idx), expected[j1 + idx])]
             IN  [idx \in 1..Min(n, j2 - j1) |-> entry(idx)]
        ELSE IF tag = "delete"
        THEN [idx \in 1..(i2 - i1) |->
                 [word |-> transcribed_words[i1 + idx], type |-> "extra",
                  position |-> i1 + idx - 1, user_said |-> transcribed_words[i1 + idx]]]
        ELSE [idx \in 1..(j2 - j1) |->
                 [word |-> expected[j1 + idx], type |-> "missing",
                  position |-> j1 + idx - 1, suggestion |-> expected[j1 + idx]]]

RECURSIVE DiffAll(_, _, _, _)
DiffAll(ops, n, transcribed_words, expected) ==
    IF n > Len(ops) THEN <<>>
    ELSE DiffEntries(ops[n], transcribed_words, expected)
         \o DiffAll(ops, n + 1, transcribed_words, expected)

\* sorted(results, key=position): a stable sort
RECURSIVE InsertByPosition(_, _)
InsertByPosition(sorted, x) ==
    IF sorted = <<>> THEN <<x>>
    ELSE IF sorted[Len(sorted)].position <= x.position THEN Append(sorted, x)
    ELSE Append(InsertByPosition(SubSeq(sorted, 1, Len(sorted) - 1), x), sorted[Len(sorted)])

RECURSIVE SortByPosition(_, _, _)
SortByPosition(results, n, sorted) ==
    IF n > Len(results) THEN sorted
    ELSE SortByPosition(results, n + 1, InsertByPosition(sorted, results[n]))

\* get_word_diff without the final sort
GetWordDiffUnsorted(transcribed_words, expected) ==
    DiffAll(get_opcodes(transcribed_words, expected), 1, transcribed_words, expected)

\* get_word_diff: the entries of every block, sorted by position
get_word_diff(transcribed_words, expected) ==
    SortByPosition(DiffAll(get_opcodes(transcribed_words, expected), 1,
                           transcribed_words, expected),
                   1, <<>>)

(***************************************************************************)
(* asr_validator.py: transcribe_audio, validate_speech                     *)
(***************************************************************************)
MATCH_SIMILARITY == 90

\* similarity_threshold: float = 0.6, in hundredths
DEFAULT_SIMILARITY_THRESHOLD == 60

SPEAK_CLEARLY == "Could not transcribe audio. Please speak more clearly."

\* What the ASR does on one call: _get_whisper_model() raises ("load_error",
\* outside the try block), something inside the try block raises
\* ("pipeline_error"), or the pipeline returns a text.
LoadError == [kind |-> "load_error"]

PipelineError == [kind |-> "pipeline_error"]

\* The pipeline's result: its text and, with return_timestamps="word", one
\* timestamped chunk per word of the text
Text(t) == [kind |-> "text", text |-> t, chunks |-> Split(t)]

\* The entry transcribe_audio appends to _word_locations for a chunk (the
\* timestamps are not modelled)
WordLocation(chunk) == [word |-> Strip(chunk)]

\* _word_locations after a transcribe_audio that nothing interleaves with
WordLocations(asr) == [k \in 1..Len(asr.chunks) |-> WordLocation(asr.chunks[k])]

\* result['word_locations'] = get_word_locations(): the list the global
\* _word_locations names when validate_speech builds its result
WithWordLocations(result, locations) ==
    [key \in DOMAIN result \cup {"word_locations"} |->
        IF key = "word_locations" THEN locations ELSE result[key]]

\* Bug variant: the hallucination check is missing.
TranscribeAudioUnfiltered(asr) ==
    IF asr.kind = "pipeline_error" THEN <<>> ELSE Strip(Lower(asr.text))

\* transcribe_audio once the model is loaded: "" when the try block raises or
\* the text is a hallucination, else the text lower-cased and stripped
transcribe_audio(asr) ==
    IF asr.kind = "pipeline_error" THEN <<>>
    ELSE IF is_hallucination(asr.text) THEN <<>>
    ELSE Strip(Lower(asr.text))

\* x >= y for fractions
FracGeq(x, y) == x.num * y.den >= y.num * x.den

\* max(x, y)
FracMax(x, y) == IF FracGeq(x, y) THEN x ELSE y

\* Bug variant: the upper threshold is exclusive.
DecideStrict(similarity, threshold) ==
    IF 100 * similarity.num > MATCH_SIMILARITY * similarity.den
    THEN [status |-> "match", can_proceed |-> TRUE]
    ELSE IF 100 * similarity.num >= threshold * similarity.den
    THEN [status |-> "partial", can_proceed |-> TRUE]
    ELSE [status |-> "mismatch", can_proceed |-> FALSE]

\* Bug variant: the default threshold is used in place of the caller's.
DecideIgnoringThreshold(similarity, threshold) ==
    IF 100 * similarity.num >= MATCH_SIMILARITY * similarity.den
    THEN [status |-> "match", can_proceed |-> TRUE]
    ELSE IF 100 * similarity.num >= DEFAULT_SIMILARITY_THRESHOLD * similarity.den
    THEN [status |-> "partial", can_proceed |-> TRUE]
    ELSE [status |-> "mismatch", can_proceed |-> FALSE]

\* "Determine status": similarity >= 0.9, similarity >= similarity_threshold
Decide(similarity, threshold) ==
    IF 100 * similarity.num >= MATCH_SIMILARITY * similarity.den
    THEN [status |-> "match", can_proceed |-> TRUE]
    ELSE IF 100 * similarity.num >= threshold * similarity.den
    THEN [status |-> "partial", can_proceed |-> TRUE]
    ELSE [status |-> "mismatch", can_proceed |-> FALSE]

OfType(word_diff, type) ==
    LET Is(w) == w.type = type IN SelectSeq(word_diff, Is)

ErrorResult(expected) ==
    [status |-> "error", transcribed |-> <<>>, expected |-> expected, similarity |-> 0,
     word_diff |-> <<>>, missing_words |-> <<>>, extra_words |-> <<>>,
     wrong_words |-> <<>>, can_proceed |-> FALSE, message |-> SPEAK_CLEARLY]

\* validate_speech after a non-empty transcription; outcome is what
\* align_words_dtw returns if compare_word_sequences gets to call it
ComparedResult(transcribed, expected, threshold, outcome) ==
    LET trans_normalized == Strip(Lower(transcribed))
        expected_normalized == Strip(Lower(expected))
        sequence_similarity == ratio(trans_normalized, expected_normalized)
        levenshtein_similarity ==
            edit_distance_similarity(trans_normalized, expected_normalized)
        similarity == FracMax(sequence_similarity, levenshtein_similarity)
        trans_words == Split(trans_normalized)
        expected_words_ == Split(expected_normalized)
        dtw_comparison == compare_word_sequences(expected_words_, trans_words, outcome)
        word_diff == get_word_diff(trans_words, expected_words_)
        missing_words == OfType(word_diff, "missing")
        wrong_words == OfType(word_diff, "wrong")
        decision == Decide(similarity, threshold)
    IN  [status |-> decision.status,
         transcribed |-> transcribed,
         expected |-> expected,
         similarity |-> RoundMilli(similarity.num, similarity.den),
         sequence_similarity |-> RoundMilli(sequence_similarity.num, sequence_similarity.den),
         levenshtein_similarity |->
             RoundMilli(levenshtein_similarity.num, levenshtein_similarity.den),
         word_diff |-> word_diff,
         dtw_comparison |-> dtw_comparison,
         dtw_summary |-> get_word_match_summary(dtw_comparison),
         missing_words |-> missing_words,
         extra_words |-> OfType(word_diff, "extra"),
         wrong_words |-> wrong_words,
         can_proceed |-> decision.can_proceed,
         message |-> IF decision.status = "mismatch" THEN <<"Please try saying", expected>>
                     ELSE IF decision.status = "partial"
                     THEN <<"Good attempt", Len(missing_words) + Len(wrong_words)>>
                     ELSE <<"Great! You said the sentence correctly.">>]

validate_speech(asr, expected, threshold, outcome) ==
    LET transcribed == transcribe_audio(asr)
    IN  IF transcribed = <<>> THEN ErrorResult(expected)
        ELSE ComparedResult(transcribed, expected, threshold, outcome)

\* The word lists validate_speech hands to compare_word_sequences
GateTransWords == Split(Strip(Lower(transcribe_audio(asr_output))))

GateExpectedWords == Split(Strip(Lower(expected_text)))

(***************************************************************************)
(* Calls of validate_speech                                                *)
(***************************************************************************)
MaxGateLen == 2

GateAlphabet == {"a", "B", " "}

GateTexts == SeqsUpTo(GateAlphabet, MaxGateLen)

SimilarityThresholds == {DEFAULT_SIMILARITY_THRESHOLD, 95}

ABABABABAB == <<"a", "b", "a", "b", "a", "b", "a", "b", "a", "b">>

ABABABABAA == <<"a", "b", "a", "b", "a", "b", "a", "b", "a", "a">>

\* The scenario of the specification (also as Whisper writes it, with a
\* leading blank and a capital), two texts one edit apart in ten characters,
\* a hallucinated text, and a short attempt at the sentence.
GateScenarios ==
    { [asr |-> Text(SheSellSeashells), expected |-> SheSellsSeashells],
      [asr |-> Text(<<" ", "S">> \o Tail(SheSellSeashells)), expected |-> SheSellsSeashells],
      [asr |-> Text(SheSellsSeashells), expected |-> SheSellsSeashells],
      [asr |-> Text(ABABABABAA), expected |-> ABABABABAB],
      [asr |-> Text(<<"é", "é", "é">>), expected |-> SheSellsSeashells],
      [asr |-> Text(SHE \o SP \o SELL), expected |-> SheSellsSeashells] }

GateCalls ==
    [asr : {Text(t) : t \in GateTexts} \cup {LoadError, PipelineError},
     expected : GateTexts]
    \cup GateScenarios

InitGate ==
    /\ pc = "call"
    /\ \E c \in GateCalls : asr_output = c.asr /\ expected_text = c.expected
    /\ similarity_threshold \in SimilarityThresholds
    /\ validation = None
    /\ ran = {}
    /\ IdleEdit
    /\ IdlePer
    /\ IdleHalluc
    /\ IdleWords
    /\ IdleLetters
    /\ IdleSummary
    /\ IdleThreads
    /\ IdleDetector
    /\ IdleTips
    /\ IdleDiff
    /\ IdleLocations
    /\ IdleValidator
    /\ IdleSingletons

ALL_COMPARISONS == {"sequence_ratio", "levenshtein", "dtw_comparison", "word_diff"}

\* validate_speech when _get_whisper_model() raises: transcribe_audio calls it
\* before its try block, so the exception leaves validate_speech
ValidateLoadFailure ==
    /\ pc = "call"
    /\ asr_output = LoadError
    /\ pc' = "raised"
    /\ UNCHANGED <<asr_output, expected_text, similarity_threshold, validation, ran,
                   editVars, perVars, hallucVars, wordVars, letterVars, summaryVars, threadVars, detectorVars, tipVars, diffVars, locationVars, validatorVars, singletonVars>>

\* validate_speech returning at "if not transcribed"
ValidateNoTranscription ==
    /\ pc = "call"
    /\ asr_output # LoadError
    /\ transcribe_audio(asr_output) = <<>>
    /\ validation' = validate_speech(asr_output, expected_text, similarity_threshold, None)
    /\ ran' = {}
    /\ pc' = "return"
    /\ UNCHANGED <<asr_output, expected_text, similarity_threshold,
                   editVars, perVars, hallucVars, wordVars, letterVars, summaryVars, threadVars, detectorVars, tipVars, diffVars, locationVars, validatorVars, singletonVars>>

\* validate_speech when get_mapped_words returns before aligning
ValidateNoAlignment ==
    /\ pc = "call"
    /\ asr_output # LoadError
    /\ transcribe_audio(asr_output) # <<>>
    /\ ~AlignerCalled(GateTransWords, GateExpectedWords)
    /\ validation' = WithWordLocations(
                         validate_speech(asr_output, expected_text, similarity_threshold,
                                         [kind |-> "none", indices |-> <<>>]),
                         WordLocations(asr_output))
    /\ ran' = ALL_COMPARISONS
    /\ pc' = "return"
    /\ UNCHANGED <<asr_output, expected_text, similarity_threshold,
                   editVars, perVars, hallucVars, wordVars, letterVars, summaryVars, threadVars, detectorVars, tipVars, diffVars, locationVars, validatorVars, singletonVars>>

\* validate_speech with the DTW library's path
ValidateDtw ==
    /\ pc = "call"
    /\ asr_output # LoadError
    /\ transcribe_audio(asr_output) # <<>>
    /\ AlignerCalled(GateTransWords, GateExpectedWords)
    /\ \E m \in DtwPaths(GateTransWords, GateExpectedWords) :
          validation' = WithWordLocations(
                            validate_speech(asr_output, expected_text, similarity_threshold,
                                            [kind |-> "dtw", indices |-> m]),
                            WordLocations(asr_output))
    /\ ran' = ALL_COMPARISONS
    /\ pc' = "return"
    /\ UNCHANGED <<asr_output, expected_text, similarity_threshold,
                   editVars, perVars, hallucVars, wordVars, letterVars, summaryVars, threadVars, detectorVars, tipVars, diffVars, locationVars, validatorVars, singletonVars>>

\* validate_speech when the DTW library is missing or throws
ValidateFallback ==
    /\ pc = "call"
    /\ asr_output # LoadError
    /\ transcribe_audio(asr_output) # <<>>
    /\ AlignerCalled(GateTransWords, GateExpectedWords)
    /\ validation' = WithWordLocations(
          validate_speech(asr_output, expected_text, similarity_threshold,
                          [kind |-> "fallback",
                           indices |-> fallback_alignment(GateTransWords, GateExpectedWords)]),
          WordLocations(asr_output))
    /\ ran' = ALL_COMPARISONS
    /\ pc' = "return"
    /\ UNCHANGED <<asr_output, expected_text, similarity_threshold,
                   editVars, perVars, hallucVars, wordVars, letterVars, summaryVars, threadVars, detectorVars, tipVars, diffVars, locationVars, validatorVars, singletonVars>>

NextGate ==
    \/ ValidateLoadFailure
    \/ ValidateNoTranscription
    \/ ValidateNoAlignment
    \/ ValidateDtw
    \/ ValidateFallback

SpecGate == InitGate /\ [][NextGate]_vars

(***************************************************************************)
(* Claims about validate_speech                                            *)
(***************************************************************************)
\* q >= pct / 100 for a fraction q
AtLeast(q, pct) == 100 * q.num >= pct * q.den

\* The two whole-string measures of the call that returned, from its inputs
GateNormalizedTranscription == Strip(Lower(validation.transcribed))

GateNormalizedExpected == Strip(Lower(expected_text))

GateSequenceRatio == ratio(GateNormalizedTranscription, GateNormalizedExpected)

GateLevenshtein ==
    edit_distance_similarity(GateNormalizedTranscription, GateNormalizedExpected)

\* s >= pct / 100 where s is the larger of the two measures
WholeStringAtLeast(pct) == AtLeast(GateSequenceRatio, pct) \/ AtLeast(GateLevenshtein, pct)

Returned == pc = "return"

NothingTranscribed == asr_output.kind = "text" /\ Strip(asr_output.text) = <<>>

FilterRejected == asr_output.kind = "text" /\ is_hallucination(asr_output.text)

TranscriptionFailed == asr_output = PipelineError

\* C2: when the transcription is empty (the ASR produced nothing, the
\* hallucination filter rejected its text, or the transcription failed),
\* validate_speech returns status 'error' without can_proceed, similarity 0,
\* an empty word_diff and the message asking to speak more clearly; it runs
\* no similarity or word comparison and raises no exception.
C2_EmptyTranscriptionIsError ==
    (pc # "call" /\ (NothingTranscribed \/ FilterRejected \/ TranscriptionFailed)) =>
        /\ pc = "return"
        /\ validation.status = "error"
        /\ ~validation.can_proceed
        /\ validation.similarity = 0
        /\ validation.word_diff = <<>>
        /\ validation.message = SPEAK_CLEARLY
        /\ ran = {}
        /\ DOMAIN validation \cap
              {"sequence_similarity", "levenshtein_similarity", "dtw_comparison",
               "dtw_summary"} = {}

\* A text the hallucination filter rejects came back as the error result.
C2_Witness ==
    /\ Returned
    /\ asr_output = Text(<<"é", "é", "é">>)
    /\ FilterRejected
    /\ validation.status = "error"
    /\ validation.message = SPEAK_CLEARLY

\* The scenario: "she sell seashells" heard for "she sells seashells" under
\* the default threshold
SheSellScenario ==
    /\ Returned
    /\ asr_output = Text(SheSellSeashells)
    /\ expected_text = SheSellsSeashells
    /\ similarity_threshold = DEFAULT_SIMILARITY_THRESHOLD

SellsMarkedWrong ==
    /\ Len(validation.word_diff) = 3
    /\ validation.word_diff[2].word = SELLS
    /\ validation.word_diff[2].type = "wrong"
    /\ validation.word_diff[2].issue = <<"missing_ending_", <<"s">>>>

\* C3 as the specification states it: in the scenario "sells" is marked wrong
\* with issue missing_ending_s and the status is 'partial' with can_proceed.
C3_AsStated ==
    SheSellScenario =>
        /\ SellsMarkedWrong
        /\ validation.status = "partial"
        /\ validation.can_proceed

\* C3: in the scenario "sells" is marked wrong with issue missing_ending_s and
\* the status is 'match' with can_proceed, the similarity being 36/37 >= 0.9.
C3_SheSellScenarioIsMatch ==
    SheSellScenario =>
        /\ SellsMarkedWrong
        /\ GateSequenceRatio = Frac(36, 37)
        /\ GateLevenshtein = Frac(18, 19)
        /\ validation.similarity = 973
        /\ validation.status = "match"
        /\ validation.can_proceed

\* The scenario was run and "sells" came out wrong.
C3_Witness == SheSellScenario /\ SellsMarkedWrong /\ validation.status = "match"

\* C11 as the specification states it: with the greedy fallback aligner the
\* result reports for each reference word, in reference order, the not yet
\* used transcribed word of least edit distance, accepted only if that
\* distance is less than the reference word's length, and otherwise none.
\* The greedy choice is the list _fallback_alignment builds.
C11_FallbackIsGreedy ==
    (pc = "return" /\ alignment.kind = "fallback") =>
        \A i \in 1..Len(expected_words) :
           comparison[i].actual_index = alignment.indices[i]

(***************************************************************************)
(* Claims about get_edit_operations                                        *)
(***************************************************************************)
\* How many characters of seq1 / seq2 the first k operations consume
ConsumedOfSeq1(ops, k) == Cardinality({i \in 1..k : ops[i].type # "insert"})

ConsumedOfSeq2(ops, k) == Cardinality({i \in 1..k : ops[i].type # "delete"})

\* The distance between the prefixes of lengths x and y
PrefixDistance(x, y) == edit_distance(SubSeq(seq1, 1, x), SubSeq(seq2, 1, y))

\* The type the stated preference asks for at the cell (x, y)
PreferredAt(x, y) ==
    IF x > 0 /\ y > 0 /\ seq1[x] = seq2[y] THEN "match"
    ELSE IF x > 0 /\ y > 0 /\ PrefixDistance(x - 1, y - 1) = PrefixDistance(x, y) - 1
    THEN "substitute"
    ELSE IF x > 0 /\ PrefixDistance(x - 1, y) = PrefixDistance(x, y) - 1 THEN "delete"
    ELSE "insert"

\* Operation k does to the characters at (x, y) what its type says
OperationFits(op, x, y) ==
    /\ op.type \in {"match", "substitute", "delete", "insert"}
    /\ op.type = "match" => op.char1 = seq1[x] /\ op.char2 = seq2[y] /\ op.char1 = op.char2
    /\ op.type = "substitute" =>
          op.char1 = seq1[x] /\ op.char2 = seq2[y] /\ op.char1 # op.char2
    /\ op.type = "delete" => op.char1 = seq1[x] /\ op.char2 = None
    /\ op.type = "insert" => op.char1 = None /\ op.char2 = seq2[y]
    /\ op.position = IF op.type = "insert" THEN x ELSE x - 1

\* C18: get_edit_operations(a, b) returns one minimal edit script in
\* left-to-right order (it consumes a and b from the left, and its operations
\* other than match number edit_distance(a, b)); at each step from the end it
\* prefers match over substitute over delete over insert: match whenever the
\* two current characters are equal, substitute whenever the diagonal cell is
\* one less, delete next, insert only when none of the others applies.
C18_MinimalScriptWithPreference ==
    (pc = "return" /\ edit_result.fn = "get_edit_operations") =>
        LET ops == edit_result.value
            n == Len(ops)
        IN  /\ ConsumedOfSeq1(ops, n) = Len(seq1)
            /\ ConsumedOfSeq2(ops, n) = Len(seq2)
            /\ Cardinality({k \in 1..n : ops[k].type # "match"}) = edit_distance(seq1, seq2)
            /\ \A k \in 1..n :
                  LET x == ConsumedOfSeq1(ops, k)
                      y == ConsumedOfSeq2(ops, k)
                  IN  /\ OperationFits(ops[k], x, y)
                      /\ ops[k].type = PreferredAt(x, y)

\* "ab" to "ba" has minimal scripts with a delete and an insert; the one
\* returned is two substitutions.
C18_Witness ==
    /\ pc = "return"
    /\ edit_result.fn = "get_edit_operations"
    /\ seq1 = <<"a", "b">>
    /\ seq2 = <<"b", "a">>
    /\ Len(edit_result.value) = 2
    /\ edit_result.value[1].type = "substitute"
    /\ edit_result.value[2].type = "substitute"

(***************************************************************************)
(* letter_highlighter.py: highlight_letter_errors                          *)
(***************************************************************************)
\* LetterStatus; error_type, expected and actual default to None
LetterStatus(letter, is_correct, error_type, actual) ==
    [letter |-> letter, is_correct |-> is_correct, error_type |-> error_type,
     expected |-> letter, actual |-> actual]

\* The statuses of the operations from position n on; exp_idx is 0-based
RECURSIVE StatusesOfOperations(_, _, _, _)
StatusesOfOperations(expected_word, operations, n, exp_idx) ==
    IF n > Len(operations)
    THEN \* "Handle any remaining expected characters"
         [k \in 1..(Len(expected_word) - exp_idx) |->
             LetterStatus(expected_word[exp_idx + k], FALSE, "deletion", None)]
    ELSE LET op == operations[n]
         IN  IF op.type = "match"
             THEN <<LetterStatus(expected_word[exp_idx + 1], TRUE, None, op.char2)>>
                  \o StatusesOfOperations(expected_word, operations, n + 1, exp_idx + 1)
             ELSE IF op.type = "substitute"
             THEN <<LetterStatus(expected_word[exp_idx + 1], FALSE, "substitution", op.char2)>>
                  \o StatusesOfOperations(expected_word, operations, n + 1, exp_idx + 1)
             ELSE IF op.type = "delete"
             THEN <<LetterStatus(expected_word[exp_idx + 1], FALSE, "deletion", None)>>
                  \o StatusesOfOperations(expected_word, operations, n + 1, exp_idx + 1)
             ELSE StatusesOfOperations(expected_word, operations, n + 1, exp_idx)

\* Bug variant: the '-' placeholder is compared like a word.
HighlightPlaceholderAsWord(expected_word, actual_word) ==
    IF expected_word = <<>> THEN <<>>
    ELSE IF actual_word = <<>>
    THEN [k \in 1..Len(expected_word) |->
             LetterStatus(expected_word[k], FALSE, "deletion", None)]
    ELSE StatusesOfOperations(expected_word,
                              get_edit_operations(Lower(expected_word), Lower(actual_word)),
                              1, 0)

\* highlight_letter_errors with case_sensitive=False, its default
highlight_letter_errors(expected_word, actual_word) ==
    IF expected_word = <<>> THEN <<>>
    ELSE IF actual_word = WORD_NOT_FOUND \/ actual_word = <<>>
    THEN [k \in 1..Len(expected_word) |->
             LetterStatus(expected_word[k], FALSE, "deletion", None)]
    ELSE StatusesOfOperations(expected_word,
                              get_edit_operations(Lower(expected_word), Lower(actual_word)),
                              1, 0)

(***************************************************************************)
(* Calls of highlight_letter_errors                                        *)
(***************************************************************************)
MaxWordLen == 3

LetterAlphabet == {"a", "B"}

CAT == <<"c", "a", "t">>

BAT == <<"b", "a", "t">>

\* Words over the alphabet, the '-' placeholder, and the words of the
\* specification's examples.
LetterWords == SeqsUpTo(LetterAlphabet, MaxWordLen) \cup {WORD_NOT_FOUND, CAT, BAT, SELLS, SELL}

InitLetters ==
    /\ pc = "call"
    /\ letters_expected \in LetterWords
    /\ letters_actual \in LetterWords
    /\ letter_statuses = None
    /\ IdleEdit
    /\ IdlePer
    /\ IdleHalluc
    /\ IdleWords
    /\ IdleGate
    /\ IdleSummary
    /\ IdleThreads
    /\ IdleDetector
    /\ IdleTips
    /\ IdleDiff
    /\ IdleLocations
    /\ IdleValidator
    /\ IdleSingletons

CallHighlightLetterErrors ==
    /\ pc = "call"
    /\ letter_statuses' = highlight_letter_errors(letters_expected, letters_actual)
    /\ pc' = "return"
    /\ UNCHANGED <<letters_expected, letters_actual,
                   editVars, perVars, hallucVars, wordVars, gateVars, summaryVars, threadVars, detectorVars, tipVars, diffVars, locationVars, validatorVars, singletonVars>>

NextLetters == CallHighlightLetterErrors

SpecLetters == InitLetters /\ [][NextLetters]_vars

\* The operation that consumes the k-th expected character: the k-th
\* operation that is not an insert
ConsumingOperation(operations, k) ==
    LET n == CHOOSE n \in 1..Len(operations) :
                 /\ operations[n].type # "insert"
                 /\ Cardinality({i \in 1..n : operations[i].type # "insert"}) = k
    IN  operations[n]

\* The positions (0-based) whose letter is not reported correct
LetterErrors == {k \in 0..(Len(letter_statuses) - 1) : ~letter_statuses[k + 1].is_correct}

C19_StatusDerivation ==
    pc = "return" =>
        \A i \in 1..Len(expected_words) :
           LET entry == comparison[i]
               matched == entry.actual_index # -1
               word == actual_words[entry.actual_index + 1]
               same == Strip(Lower(expected_words[i])) = Strip(Lower(word))
               distance == edit_distance(Lower(expected_words[i]), Lower(word))
               max_len == Max(Len(expected_words[i]), Len(word))
           IN  /\ entry.status = "missing" <=> ~matched
               /\ matched =>
                     /\ entry.status = "correct" <=> same
                     /\ ~same =>
                           entry.status = IF 2 * (max_len - distance) > max_len
                                          THEN "partial" ELSE "wrong"

(***************************************************************************)
(* Claims about get_word_match_summary                                     *)
(***************************************************************************)
NonExtraEntries == {k \in 1..Len(comparison) : comparison[k].status # "extra"}

CorrectEntries == {k \in 1..Len(comparison) : comparison[k].status = "correct"}

ExtraEntryCount == Len(comparison) - Cardinality(NonExtraEntries)

\* summary.accuracy is in tenths of a percent: 1000 is 100.0
FULL_ACCURACY == 1000

\* C20 as the specification states it: accuracy = correct / total_expected *
\* 100 where total_expected counts the non-extra entries, is_perfect exactly
\* when correct = total_expected and there is no extra entry, and for every
\* comparison result, the empty one included, is_perfect goes together with
\* accuracy 100.
C20_AsStated ==
    pc = "summarised" =>
        /\ summary.total_expected = Cardinality(NonExtraEntries)
        /\ summary.total_expected > 0 =>
              summary.accuracy * summary.total_expected
                  = FULL_ACCURACY * Cardinality(CorrectEntries)
        /\ summary.is_perfect <=>
              (Cardinality(CorrectEntries) = summary.total_expected /\ ExtraEntryCount = 0)
        /\ summary.is_perfect => summary.accuracy = FULL_ACCURACY

\* C20: accuracy is correct / total_expected * 100 rounded to one decimal
\* where total_expected counts the non-extra entries, and 0 when there are
\* none; is_perfect exactly when correct = total_expected and there is no
\* extra entry; for every non-empty comparison result is_perfect goes
\* together with accuracy 100, while the empty result is perfect with
\* accuracy 0.
C20_SummaryRounded ==
    pc = "summarised" =>
        LET total == Cardinality(NonExtraEntries)
            correct == Cardinality(CorrectEntries)
            off == summary.accuracy * total - FULL_ACCURACY * correct
        IN  /\ summary.total_expected = total
            /\ summary.correct = correct
            /\ total > 0 => 2 * off <= total /\ 2 * off >= -total
            /\ total = 0 => summary.accuracy = 0
            /\ summary.is_perfect <=> (correct = total /\ ExtraEntryCount = 0)
            /\ (summary.is_perfect /\ Len(comparison) > 0) => summary.accuracy = FULL_ACCURACY
            /\ Len(comparison) = 0 => summary.is_perfect /\ summary.accuracy = 0

\* One correct word of three expected: accuracy 33.3.
C20_Witness ==
    /\ pc = "summarised"
    /\ Len(expected_words) = 3
    /\ summary.total_expected = 3
    /\ summary.correct = 1
    /\ summary.accuracy = 333
    /\ ~summary.is_perfect

(***************************************************************************)
(* asr_validator.py: two validate_speech calls in two threads              *)
(*                                                                         *)
(* The module-level name _word_locations is shared by all calls.  A list   *)
(* object is known by the number of the thread that made it (0: the list   *)
(* made at import); word_locations is the object the global names, and     *)
(* word_location_lists[i] is the content of object i.  A thread can be     *)
(* preempted between any two statements that touch the global.             *)
(***************************************************************************)
Threads == {1, 2}

ThreadAudios == {Text(<<"a">>), Text(<<"B">>), Text(<<"a", " ", "B">>), PipelineError}

ThreadTexts == {<<"a">>, <<"a", " ", "B">>}

\* What align_words_dtw can give compare_word_sequences
AlignOutcomes(words_estimated, words_real) ==
    IF AlignerCalled(words_estimated, words_real)
    THEN {[kind |-> "dtw", indices |-> m] : m \in DtwPaths(words_estimated, words_real)}
         \cup {[kind |-> "fallback",
                indices |-> fallback_alignment(words_estimated, words_real)]}
    ELSE {[kind |-> "none", indices |-> <<>>]}

InitThreads ==
    /\ pc = "threads"
    /\ thread_pc = [t \in Threads |-> "call"]
    /\ thread_audio \in [Threads -> ThreadAudios]
    /\ thread_expected \in [Threads -> ThreadTexts]
    /\ thread_chunk = [t \in Threads |-> 0]
    /\ thread_transcribed = [t \in Threads |-> None]
    /\ thread_result = [t \in Threads |-> None]
    /\ word_location_lists = [i \in {0} \cup Threads |-> <<>>]
    /\ word_locations = 0
    /\ IdleEdit
    /\ IdlePer
    /\ IdleHalluc
    /\ IdleWords
    /\ IdleGate
    /\ IdleLetters
    /\ IdleSummary
    /\ IdleDetector
    /\ IdleTips
    /\ IdleDiff
    /\ IdleLocations
    /\ IdleValidator
    /\ IdleSingletons

\* transcribe_audio up to the hallucination check: the pipeline raised or its
\* text is rejected ('' is returned), or the text is kept
ThreadRunPipeline(t) ==
    /\ thread_pc[t] = "call"
    /\ IF thread_audio[t] = PipelineError \/ is_hallucination(thread_audio[t].text)
       THEN /\ thread_transcribed' = [thread_transcribed EXCEPT ![t] = <<>>]
            /\ thread_pc' = [thread_pc EXCEPT ![t] = "validate"]
       ELSE /\ thread_pc' = [thread_pc EXCEPT ![t] = "reset"]
            /\ UNCHANGED thread_transcribed
    /\ UNCHANGED <<pc, thread_audio, thread_expected, thread_chunk, thread_result,
                   word_location_lists, word_locations,
                   editVars, perVars, hallucVars, wordVars, gateVars, letterVars, summaryVars, detectorVars, tipVars, diffVars, locationVars, validatorVars, singletonVars>>

\* "_word_locations = []"
ThreadResetLocations(t) ==
    /\ thread_pc[t] = "reset"
    /\ word_locations' = t
    /\ word_location_lists' = [word_location_lists EXCEPT ![t] = <<>>]
    /\ thread_chunk' = [thread_chunk EXCEPT ![t] = 1]
    /\ thread_pc' = [thread_pc EXCEPT ![t] = "append"]
    /\ UNCHANGED <<pc, thread_audio, thread_expected, thread_transcribed, thread_result,
                   editVars, perVars, hallucVars, wordVars, gateVars, letterVars, summaryVars, detectorVars, tipVars, diffVars, locationVars, validatorVars, singletonVars>>

\* "_word_locations.append({...})" for one chunk: the global is looked up anew
ThreadAppendLocation(t) ==
    /\ thread_pc[t] = "append"
    /\ thread_chunk[t] <= Len(thread_audio[t].chunks)
    /\ word_location_lists' =
          [word_location_lists EXCEPT
              ![word_locations] = Append(@, WordLocation(thread_audio[t].chunks[thread_chunk[t]]))]
    /\ thread_chunk' = [thread_chunk EXCEPT ![t] = @ + 1]
    /\ UNCHANGED <<pc, thread_pc, thread_audio, thread_expected, thread_transcribed,
                   thread_result, word_locations,
                   editVars, perVars, hallucVars, wordVars, gateVars, letterVars, summaryVars, detectorVars, tipVars, diffVars, locationVars, validatorVars, singletonVars>>

\* "return transcription.lower().strip()"
ThreadReturnTranscription(t) ==
    /\ thread_pc[t] = "append"
    /\ thread_chunk[t] > Len(thread_audio[t].chunks)
    /\ thread_transcribed' = [thread_transcribed EXCEPT ![t] = Strip(Lower(thread_audio[t].text))]
    /\ thread_pc' = [thread_pc EXCEPT ![t] = "validate"]
    /\ UNCHANGED <<pc, thread_audio, thread_expected, thread_chunk, thread_result,
                   word_location_lists, word_locations,
                   editVars, perVars, hallucVars, wordVars, gateVars, letterVars, summaryVars, detectorVars, tipVars, diffVars, locationVars, validatorVars, singletonVars>>

\* validate_speech after transcribe_audio returned '': the error result
ThreadReturnError(t) ==
    /\ thread_pc[t] = "validate"
    /\ thread_transcribed[t] = <<>>
    /\ thread_result' = [thread_result EXCEPT ![t] = ErrorResult(thread_expected[t])]
    /\ thread_pc' = [thread_pc EXCEPT ![t] = "done"]
    /\ UNCHANGED <<pc, thread_audio, thread_expected, thread_chunk, thread_transcribed,
                   word_location_lists, word_locations,
                   editVars, perVars, hallucVars, wordVars, gateVars, letterVars, summaryVars, detectorVars, tipVars, diffVars, locationVars, validatorVars, singletonVars>>

\* validate_speech after a transcription: the result dict, whose
\* 'word_locations' is the list object the global names at that moment
ThreadReturnResult(t) ==
    /\ thread_pc[t] = "validate"
    /\ thread_transcribed[t] # <<>>
    /\ \E outcome \in AlignOutcomes(Split(Strip(Lower(thread_transcribed[t]))),
                                    Split(Strip(Lower(thread_expected[t])))) :
          thread_result' =
             [thread_result EXCEPT
                 ![t] = WithWordLocations(
                            ComparedResult(thread_transcribed[t], thread_expected[t],
                                           DEFAULT_SIMILARITY_THRESHOLD, outcome),
                            [list |-> word_locations])]
    /\ thread_pc' = [thread_pc EXCEPT ![t] = "done"]
    /\ UNCHANGED <<pc, thread_audio, thread_expected, thread_chunk, thread_transcribed,
                   word_location_lists, word_locations,
                   editVars, perVars, hallucVars, wordVars, gateVars, letterVars, summaryVars, detectorVars, tipVars, diffVars, locationVars, validatorVars, singletonVars>>

NextThreads ==
    \E t \in Threads :
       \/ ThreadRunPipeline(t)
       \/ ThreadResetLocations(t)
       \/ ThreadAppendLocation(t)
       \/ ThreadReturnTranscription(t)
       \/ ThreadReturnError(t)
       \/ ThreadReturnResult(t)

SpecThreads == InitThreads /\ [][NextThreads]_vars

\* C14 as the specification states it: each result of two concurrent
\* validate_speech calls (status, transcribed text, word_diff and
\* word_locations) is determined by that call's own audio and expected text
\* alone, under every interleaving; none holds data produced by the other call.
C14_ResultsAreOwn ==
    \A t \in Threads :
       (thread_pc[t] = "done" /\ thread_result[t].status # "error") =>
           LET own == ComparedResult(transcribe_audio(thread_audio[t]), thread_expected[t],
                                     DEFAULT_SIMILARITY_THRESHOLD,
                                     [kind |-> "none", indices |-> <<>>])
           IN  /\ thread_result[t].status = own.status
               /\ thread_result[t].transcribed = own.transcribed
               /\ thread_result[t].word_diff = own.word_diff
               /\ word_location_lists[thread_result[t].word_locations.list]
                     = WordLocations(thread_audio[t])

(***************************************************************************)
(* mistake_detector.py                                                     *)
(*                                                                         *)
(* Texts built by f-strings are tuples: the fixed wording first, then the  *)
(* fields.  Phoneme scores are in hundredths.                              *)
(***************************************************************************)
Mistake(type, position, expected, actual, severity, suggestion, phoneme, word) ==
    [type |-> type, position |-> position, expected |-> expected, actual |-> actual,
     severity |-> severity, suggestion |-> suggestion, phoneme |-> phoneme, word |-> word]

NOT_SPOKEN == <<"(", "n", "o", "t", " ", "s", "p", "o", "k", "e", "n", ")">>

\* The mistake appended for a word_diff entry of type 'wrong'.  The issue is
\* <<tag, fields...>>, and "'missing_ending' in issue" is a test of the tag:
\* the fields are letters of the two words.
WrongWordMistake(diff) ==
    LET issue == diff.issue
        user_said == diff.user_said
        expected_word == diff.word
    IN  IF issue[1] = "missing_ending_"
        THEN Mistake("missing_sound", diff.position, expected_word, user_said, "moderate",
                     <<"You said but it should be. Don't forget at the end!",
                       user_said, expected_word, issue[2]>>,
                     None, expected_word)
        ELSE IF issue[1] = "missing_beginning_"
        THEN Mistake("missing_sound", diff.position, expected_word, user_said, "moderate",
                     <<"You said but it should be. Start with.",
                       user_said, expected_word, issue[2]>>,
                     None, expected_word)
        ELSE IF issue[1] = "substituted_"
        THEN \* parts = [expected_sound, user_sound]: two parts
             Mistake("wrong_sound", diff.position, expected_word, user_said, "minor",
                     <<"In you used instead of.", expected_word, <<issue[4]>>, <<issue[2]>>>>,
                     None, expected_word)
        ELSE IF issue = <<"th_substitution">>
        THEN Mistake("wrong_sound", diff.position, expected_word, user_said, "moderate",
                     <<"In the 'TH' sound was pronounced as 'D' or 'T'.", expected_word>>,
                     <<"T", "H">>, expected_word)
        ELSE Mistake("wrong_word", diff.position, expected_word, user_said, "major",
                     <<"You said instead of. Practice this word.", user_said, expected_word>>,
                     None, expected_word)

\* The mistakes one word_diff entry contributes (none for 'correct')
WordMistakesOf(diff) ==
    IF diff.type = "missing"
    THEN <<Mistake("missing_word", diff.position, diff.word, NOT_SPOKEN, "major",
                   <<"You skipped the word. Try saying the complete sentence.", diff.word>>,
                   None, diff.word)>>
    ELSE IF diff.type = "wrong"
    THEN <<WrongWordMistake(diff)>>
    ELSE IF diff.type = "extra"
    THEN <<Mistake("extra_word", diff.position, NOTHING, diff.user_said, "minor",
                   <<"You added an extra word. Try to match the exact sentence.",
                     diff.user_said>>,
                   None, diff.user_said)>>
    ELSE <<>>

\* _detect_word_mistakes
detect_word_mistakes(asr_result) ==
    Concat([k \in 1..Len(asr_result.word_diff) |-> WordMistakesOf(asr_result.word_diff[k])])

SEVERITY_MAJOR_BELOW == 30

SEVERITY_MODERATE_BELOW == 50

\* The mistake of one phoneme score, idx 0-based (none when it is correct)
PhonemeMistakesOf(ps, idx) ==
    IF ps.score >= THRESHOLD_CORRECT THEN <<>>
    ELSE IF ps.score >= THRESHOLD_WEAK
    THEN <<Mistake("weak_phoneme", idx, ps.phoneme, <<"(weak)", ps.score>>, "minor",
                   <<"The sound in needs to be clearer.", ps.phoneme, ps.word>>,
                   ps.phoneme, ps.word)>>
    ELSE <<Mistake("substitution", idx, ps.phoneme, <<"(wrong)", ps.score>>,
                   IF ps.score < SEVERITY_MAJOR_BELOW THEN "major"
                   ELSE IF ps.score < SEVERITY_MODERATE_BELOW THEN "moderate"
                   ELSE "minor",
                   <<"In: The sound was incorrect.", ps.word, ps.phoneme>>,
                   ps.phoneme, ps.word)>>

OfMistakeType(mistakes, type) ==
    LET Is(m) == m.type = type IN SelectSeq(mistakes, Is)

\* _detect_phoneme_mistakes_classified: (mistakes, error_counts)
detect_phoneme_mistakes_classified(scores) ==
    LET mistakes == Concat([k \in 1..Len(scores) |-> PhonemeMistakesOf(scores[k], k - 1)])
    IN  [mistakes |-> mistakes,
         error_counts |-> [substitution |-> Len(OfMistakeType(mistakes, "substitution")),
                           deletion |-> 0,
                           insertion |-> 0,
                           weak |-> Len(OfMistakeType(mistakes, "weak_phoneme"))]]

\* _generate_specific_errors, "Word-level errors first": the one message
\* about the missing words
MissingWordMessages(word_mistakes) ==
    LET missing_words == OfMistakeType(word_mistakes, "missing_word")
        words == [k \in 1..Len(missing_words) |-> missing_words[k].word]
    IN  IF Len(missing_words) = 0 THEN <<>>
        ELSE IF Len(words) = 1 THEN << <<"You missed the word.", words[1]>> >>
        ELSE << <<"You missed words:", Len(words)>> \o words >>

MAX_WRONG_WORD_MESSAGES == 3

WrongWords(word_mistakes) ==
    LET Is(m) == m.type \in {"wrong_word", "missing_sound"} IN SelectSeq(word_mistakes, Is)

\* Bug variant: every wrong word gets its message.
WrongWordMessagesUncapped(word_mistakes) ==
    LET wrong_words == WrongWords(word_mistakes)
    IN  [k \in 1..Len(wrong_words) |-> wrong_words[k].suggestion]

\* "for m in wrong_words[:3]: errors.append(m.suggestion)"
WrongWordMessages(word_mistakes) ==
    LET wrong_words == WrongWords(word_mistakes)
    IN  [k \in 1..Min(Len(wrong_words), MAX_WRONG_WORD_MESSAGES) |-> wrong_words[k].suggestion]

\* The message about substitutions; next(...) finds the first such mistake
SubstitutionMessages(phoneme_mistakes, error_counts) ==
    LET substitutions == error_counts.substitution
        found == OfMistakeType(phoneme_mistakes, "substitution")
    IN  IF substitutions = 0 THEN <<>>
        ELSE IF substitutions = 1
        THEN IF Len(found) > 0
             THEN << <<"You mispronounced the sound in.", found[1].phoneme, found[1].word>> >>
             ELSE <<>>
        ELSE << <<"You mispronounced phonemes.", substitutions>> >>

MAX_ERRORS_BEFORE_WEAK == 5

\* Bug variant: the message of a single weak phoneme quotes its suggestion.
WeakMessagesQuotingSuggestion(phoneme_mistakes, error_counts, errors) ==
    LET weak_count == error_counts.weak
        found == OfMistakeType(phoneme_mistakes, "weak_phoneme")
    IN  IF weak_count > 0 /\ Len(errors) < MAX_ERRORS_BEFORE_WEAK
        THEN IF weak_count = 1
             THEN IF Len(found) > 0
                  THEN << <<"The sound needs to be clearer.", found[1].suggestion>> >>
                  ELSE <<>>
             ELSE << <<"phonemes need to be clearer.", weak_count>> >>
        ELSE <<>>

\* The message about weak phonemes; errors is the list so far
WeakMessages(phoneme_mistakes, error_counts, errors) ==
    LET weak_count == error_counts.weak
        found == OfMistakeType(phoneme_mistakes, "weak_phoneme")
    IN  IF weak_count > 0 /\ Len(errors) < MAX_ERRORS_BEFORE_WEAK
        THEN IF weak_count = 1
             THEN IF Len(found) > 0
                  THEN << <<"The sound needs to be clearer.", found[1].phoneme>> >>
                  ELSE <<>>
             ELSE << <<"phonemes need to be clearer.", weak_count>> >>
        ELSE <<>>

\* _generate_specific_errors
generate_specific_errors(word_mistakes, phoneme_mistakes, error_counts) ==
    LET errors == MissingWordMessages(word_mistakes)
                  \o WrongWordMessages(word_mistakes)
                  \o SubstitutionMessages(phoneme_mistakes, error_counts)
    IN  errors \o WeakMessages(phoneme_mistakes, error_counts, errors)

\* letter_highlighter.generate_highlighted_word: correct_count, total_letters
generate_highlighted_word(expected_word, actual_word) ==
    LET statuses == highlight_letter_errors(expected_word, actual_word)
        Correct(s) == s.is_correct
    IN  [correct_count |-> Len(SelectSeq(statuses, Correct)), total_letters |-> Len(statuses)]

RECURSIVE SumField(_, _)
SumField(seq, field) ==
    IF Len(seq) = 0 THEN 0 ELSE Head(seq)[field] + SumField(Tail(seq), field)

\* letter_highlighter.generate_highlighted_sentence: the actual words are
\* padded with '-', zip stops at the shorter list; letter_accuracy is
\* total_correct_letters / total_letters * 100, and 0.0 for no letters
generate_highlighted_sentence(expected, actual) ==
    LET padded == IF Len(actual) < Len(expected)
                  THEN actual \o Rep(WORD_NOT_FOUND, Len(expected) - Len(actual))
                  ELSE actual
        words == [k \in 1..Min(Len(expected), Len(padded)) |->
                     generate_highlighted_word(expected[k], padded[k])]
    IN  [total_correct_letters |-> SumField(words, "correct_count"),
         total_letters |-> SumField(words, "total_letters")]

NO_LETTERS == [total_correct_letters |-> 0, total_letters |-> 0]

NonExtraActual(dtw_comparison) ==
    LET NotExtra(comp) == comp.status # "extra"
        kept == SelectSeq(dtw_comparison, NotExtra)
    IN  [k \in 1..Len(kept) |-> kept[k].actual]

\* _generate_letter_highlighting; asr_result.get('dtw_comparison', [])
generate_letter_highlighting(asr_result) ==
    IF Len(asr_result.expected) = 0 \/ Len(asr_result.transcribed) = 0
    THEN NO_LETTERS
    ELSE LET dtw_comparison == IF "dtw_comparison" \in DOMAIN asr_result
                               THEN asr_result.dtw_comparison ELSE <<>>
             actual == IF Len(dtw_comparison) > 0 THEN NonExtraActual(dtw_comparison)
                       ELSE Split(Lower(asr_result.transcribed))
         IN  generate_highlighted_sentence(Split(Lower(asr_result.expected)), actual)

IsDigit(c) == c \in {"0", "1", "2", "3", "4", "5", "6", "7", "8", "9"}

\* _get_fallback_tip's table basic_tips
BASIC_TIPS ==
    {<<<<"T", "H">>, "Put your tongue between your teeth and blow air.">>,
     <<<<"D", "H">>, "Put tongue between teeth, add voice for 'TH' in 'the'.">>,
     <<<<"R">>, "Curl your tongue back slightly.">>,
     <<<<"L">>, "Touch tongue tip to the roof of your mouth.">>,
     <<<<"S", "H">>, "Round your lips and push air through.">>,
     <<<<"C", "H">>, "Start with tongue at roof, release with 'SH'.">>,
     <<<<"S">>, "Keep tongue behind teeth for a clear 'S'.">>,
     <<<<"Z">>, "Add voice to the 'S' sound.">>,
     <<<<"N", "G">>, "Sound comes from back of throat.">>,
     <<<<"W">>, "Round your lips like saying 'oo'.">>,
     <<<<"Y">>, "Touch tongue to roof, slide to the next sound.">>,
     <<<<"V">>, "Touch upper teeth to lower lip, add voice.">>,
     <<<<"F">>, "Touch upper teeth to lower lip, blow air.">>}

\* _get_fallback_tip: the stress digits are stripped for the lookup, the
\* default quotes the phoneme as given
get_fallback_tip(phoneme) ==
    LET NotDigit(c) == ~IsDigit(c)
        base == SelectSeq(phoneme, NotDigit)
    IN  IF \E entry \in BASIC_TIPS : entry[1] = base
        THEN <<(CHOOSE entry \in BASIC_TIPS : entry[1] = base)[2]>>
        ELSE <<"Practice the sound more carefully.", phoneme>>

FallbackTips(weak_phonemes) ==
    [k \in 1..Len(weak_phonemes) |-> get_fallback_tip(weak_phonemes[k].phoneme)]

LLM_SERVICE == "LLMService"

\* _get_llm_service: the cached service, or a new one if the import and
\* the constructor succeed; None stands for the exception they raise
get_llm_service(service, llm) ==
    IF service = None THEN (IF llm.importable THEN LLM_SERVICE ELSE None)
    ELSE service

\* Bug variant: a list of any length is returned.
TipsOfReplyAnyLength(reply, weak_phonemes) ==
    IF reply.kind # "result" THEN FallbackTips(weak_phonemes)
    ELSE IF reply.success /\ reply.content.form # "empty"
    THEN IF reply.content.json.type = "invalid" THEN FallbackTips(weak_phonemes)
         ELSE IF reply.content.json.type = "list" THEN reply.content.json.items
         ELSE FallbackTips(weak_phonemes)
    ELSE FallbackTips(weak_phonemes)

\* _generate_ai_tips from the call of llm.generate on: generate raises or
\* returns None (result.get raises), or returns a dict; json.loads raises
\* on a string that is not JSON
TipsOfReply(reply, weak_phonemes) ==
    IF reply.kind # "result" THEN FallbackTips(weak_phonemes)
    ELSE IF reply.success /\ reply.content.form # "empty"
    THEN IF reply.content.json.type = "invalid" THEN FallbackTips(weak_phonemes)
         ELSE IF reply.content.json.type = "list"
                 /\ Len(reply.content.json.items) = Len(weak_phonemes)
         THEN reply.content.json.items
         ELSE FallbackTips(weak_phonemes)
    ELSE FallbackTips(weak_phonemes)

\* _generate_ai_tips: the tips, the detector's _llm_service afterwards and the
\* number of llm.generate calls made
generate_ai_tips(weak_phonemes, service, llm) ==
    IF Len(weak_phonemes) = 0
    THEN [tips |-> <<>>, llm_service |-> service, generate_calls |-> 0]
    ELSE LET loaded == get_llm_service(service, llm)
         IN  IF loaded = None
             THEN [tips |-> FallbackTips(weak_phonemes), llm_service |-> None,
                   generate_calls |-> 0]
             ELSE [tips |-> TipsOfReply(llm.reply, weak_phonemes), llm_service |-> loaded,
                   generate_calls |-> 1]

OfSeverity(mistakes, severity) ==
    LET Is(m) == m.severity = severity IN SelectSeq(mistakes, Is)

\* The tips entry of _generate_feedback for a mistake
FeedbackTip(m) ==
    [type |-> m.type, expected |-> m.expected, actual |-> m.actual, word |-> m.word,
     phoneme |-> m.phoneme, severity |-> m.severity, suggestion |-> m.suggestion]

MAX_FEEDBACK_TIPS == 5

\* "for mistake, tip in zip(weak_phonemes, ai_tips): mistake.suggestion = tip":
\* the Mistake objects are those of the list mistakes
WithTips(mistakes, tips) ==
    LET rank(i) == Len(OfMistakeType(SubSeq(mistakes, 1, i), "weak_phoneme"))
    IN  [i \in 1..Len(mistakes) |->
            IF mistakes[i].type = "weak_phoneme" /\ rank(i) <= Len(tips)
            THEN [mistakes[i] EXCEPT !.suggestion = tips[rank(i)]]
            ELSE mistakes[i]]

\* _generate_feedback: the feedback dict, the mistakes after the suggestions
\* were updated, and _llm_service afterwards
generate_feedback(mistakes, service, llm) ==
    IF Len(mistakes) = 0
    THEN [feedback |-> [status |-> "excellent",
                        message |-> <<"Great job! You pronounced everything correctly!">>,
                        tips |-> <<>>],
          mistakes |-> mistakes, llm_service |-> service]
    ELSE LET weak_phonemes == OfMistakeType(mistakes, "weak_phoneme")
             ai == generate_ai_tips(weak_phonemes, service, llm)
             updated == IF Len(weak_phonemes) > 0 THEN WithTips(mistakes, ai.tips) ELSE mistakes
             major == OfSeverity(updated, "major")
             moderate == OfSeverity(updated, "moderate")
             minor == OfSeverity(updated, "minor")
             all_mistakes == major \o moderate \o minor
         IN  [feedback |->
                 [status |-> IF Len(major) > 0 THEN "needs_work"
                             ELSE IF Len(moderate) > 0 THEN "good" ELSE "almost_perfect",
                  message |-> IF Len(major) > 0
                              THEN <<"Found significant issue(s). Let's work on them!", Len(major)>>
                              ELSE IF Len(moderate) > 0
                              THEN <<"Good attempt! Just thing(s) to improve.", Len(moderate)>>
                              ELSE <<"Almost perfect! Just minor detail(s).", Len(minor)>>,
                  tips |-> [k \in 1..Min(Len(all_mistakes), MAX_FEEDBACK_TIPS) |->
                               FeedbackTip(all_mistakes[k])]],
              mistakes |-> updated,
              llm_service |-> IF Len(weak_phonemes) > 0 THEN ai.llm_service ELSE service]

\* The weights 0.4 and 0.6 of the blend, in tenths
PER_WEIGHT == 4

LETTER_WEIGHT == 6

WORD_MISTAKE_PENALTY == 5

\* letter_highlighting.get('letter_accuracy', 100.0) as an exact fraction
LetterAccuracy(letter_highlighting) ==
    IF letter_highlighting.total_letters > 0
    THEN Frac(100 * letter_highlighting.total_correct_letters,
              letter_highlighting.total_letters)
    ELSE Frac(0, 1)

\* 0.4 * per_adjusted + 0.6 * letter_accuracy in exact arithmetic
BlendExact(per_adjusted, letter_accuracy) ==
    Frac(PER_WEIGHT * per_adjusted * letter_accuracy.den + LETTER_WEIGHT * letter_accuracy.num,
         10 * letter_accuracy.den)

\* int(...) of the double the code computes: the truncation of the exact
\* value, except that a sum whose exact value is an integer can be a double
\* just below it (0.6 * (1 / 3 * 100) is 19.999999999999996), which
\* truncates to one less; falls_short says whether it is
IntOfDouble(exact, falls_short) ==
    LET q == exact.num \div exact.den
    IN  IF exact.num % exact.den = 0 /\ falls_short /\ q > 0 THEN q - 1 ELSE q

\* "if len(word_mistakes) > 0: ... max(0, final_adjusted_score - word_penalty)"
FinalAdjustedScore(blended, word_mistake_count) ==
    IF word_mistake_count > 0
    THEN Max(0, blended - word_mistake_count * WORD_MISTAKE_PENALTY)
    ELSE blended

\* detect_mistakes, steps 1 to 4: what does not depend on the tip generator
Analysis(asr_result, scores) ==
    LET phonemes == [k \in 1..Len(scores) |-> scores[k].phoneme]
        similarities == [k \in 1..Len(scores) |-> scores[k].score]
    IN  [word_mistakes |-> detect_word_mistakes(asr_result),
         classified |-> detect_phoneme_mistakes_classified(scores),
         per_outcome |-> calculate_per(phonemes, phonemes, similarities),
         letter_highlighting |-> generate_letter_highlighting(asr_result)]

\* The Mistake types whose name contains 'word', and those whose name
\* contains 'sound' or 'phoneme'; 'substitution' contains none of the three
WORD_TYPES == {"missing_word", "wrong_word", "extra_word"}

SOUND_TYPES == {"missing_sound", "wrong_sound", "weak_phoneme"}

\* _generate_summary: the f-string is its fixed wording and the parts joined,
\* each part the count and its unit
generate_summary(mistakes) ==
    IF mistakes = <<>> THEN <<"Perfect pronunciation!">>
    ELSE LET word_errors ==
                 Cardinality({k \in 1..Len(mistakes) : mistakes[k].type \in WORD_TYPES})
             sound_errors ==
                 Cardinality({k \in 1..Len(mistakes) : mistakes[k].type \in SOUND_TYPES})
             parts ==
                 (IF word_errors # 0 THEN <<<<word_errors, "word(s)">>>> ELSE <<>>)
                 \o (IF sound_errors # 0 THEN <<<<sound_errors, "sound(s)">>>> ELSE <<>>)
         IN  IF parts # <<>> THEN <<"Work on:", parts>>
             ELSE <<"Minor improvements needed">>

\* detect_mistakes, steps 5 to 7 and the returned dict, with _llm_service
\* afterwards.  The Mistake objects whose
\* suggestion _generate_feedback updates are those of phoneme_mistakes.
\* expected_text only enters the prompt; the letter details of
\* letter_highlighting are left out.
Synthesis(analysis, service, llm, falls_short) ==
    LET word_mistakes == analysis.word_mistakes
        error_counts == analysis.classified.error_counts
        letter_accuracy == LetterAccuracy(analysis.letter_highlighting)
        blended == IntOfDouble(BlendExact(analysis.per_outcome.adjusted_score, letter_accuracy),
                               falls_short)
        ReturnedDict(fed) ==
            LET mistakes == fed.mistakes
                phoneme_mistakes == SubSeq(mistakes, Len(word_mistakes) + 1, Len(mistakes))
            IN  [result |->
                    [has_mistakes |-> Len(mistakes) > 0,
                     mistakes |-> mistakes,
                     mistake_count |-> Len(mistakes),
                     word_errors |-> Len(word_mistakes),
                     phoneme_errors |-> Len(phoneme_mistakes),
                     error_classification |->
                         [substitutions |-> error_counts.substitution,
                          deletions |-> error_counts.deletion,
                          insertions |-> error_counts.insertion,
                          weak_phonemes |-> error_counts.weak],
                     per_score |-> analysis.per_outcome.per_score,
                     adjusted_score |-> FinalAdjustedScore(blended, Len(word_mistakes)),
                     per_adjusted_score |-> analysis.per_outcome.adjusted_score,
                     letter_accuracy |-> letter_accuracy,
                     per_summary |-> analysis.per_outcome.summary,
                     specific_errors |->
                         generate_specific_errors(SubSeq(mistakes, 1, Len(word_mistakes)),
                                                  phoneme_mistakes, error_counts),
                     feedback |-> fed.feedback,
                     letter_highlighting |-> analysis.letter_highlighting,
                     summary |-> generate_summary(mistakes)],
                 llm_service |-> fed.llm_service]
    IN  With(generate_feedback(word_mistakes \o analysis.classified.mistakes, service, llm),
             ReturnedDict)

\* MistakeDetector.detect_mistakes
detect_mistakes(asr_result, scores, service, llm, falls_short) ==
    LET Rest(analysis) == Synthesis(analysis, service, llm, falls_short)
    IN  With(Analysis(asr_result, scores), Rest)

(***************************************************************************)
(* Calls of detect_mistakes on one detector                                *)
(***************************************************************************)
MaxPhonemes == 2

MaxTips == MaxPhonemes + 1

AB == <<"a", "b">>

AB_CD == <<"a", "b", " ", "c", "d">>

B_ONLY == <<"b">>

TAB == <<"t", "a", "b">>

THE == <<"t", "h", "e">>

ABCDEFG == <<"a", "b", "c", "d", "e", "f", "g">>

ABCDEFX == <<"a", "b", "c", "d", "e", "f", "x">>

SEVEN_WORDS == <<"a", "b", " ", "c", "d", " ", "e", "f", " ", "g", "h", " ", "i", "j", " ", "k", "l", " ", "m", "n">>

SEVEN_WORDS_SAID == <<"c", "d", " ", "e", " ", "g", " ", "i", " ", "k", " ", "m", "n">>

\* What validate_speech returns for a transcription when dtwalign is not
\* installed (without the word locations, which detect_mistakes does not read)
GateResult(transcribed, expected) ==
    LET t == Split(Strip(Lower(transcribed)))
        x == Split(Strip(Lower(expected)))
    IN  ComparedResult(transcribed, expected, DEFAULT_SIMILARITY_THRESHOLD,
                       IF AlignerCalled(t, x)
                       THEN [kind |-> "fallback", indices |-> fallback_alignment(t, x)]
                       ELSE [kind |-> "none", indices |-> <<>>])

\* asr_result: a perfect reading, an extra word, a missing beginning and a
\* skipped word, a 'th' said as 't', one letter of seven wrong, a missing
\* word with four missing endings, and the gate's error result
DetectorResults ==
    {GateResult(AB, AB), GateResult(AB_CD, AB), GateResult(B_ONLY, AB_CD),
     GateResult(TAB, THE), GateResult(ABCDEFG, ABCDEFX),
     GateResult(SEVEN_WORDS_SAID, SEVEN_WORDS), ErrorResult(AB)}

\* Entries of phoneme_scores: weak with a base in the tip table once the
\* stress digit is stripped, weak at the threshold with no entry in the
\* table, a substitution, and correct at the threshold
PhonemeScores ==
    {[phoneme |-> <<"R", "1">>, score |-> 70, word |-> <<"r", "e", "d">>],
     [phoneme |-> <<"A", "H", "0">>, score |-> THRESHOLD_WEAK, word |-> <<"a">>],
     [phoneme |-> <<"S">>, score |-> 40, word |-> <<"s", "o">>],
     [phoneme |-> <<"K">>, score |-> THRESHOLD_CORRECT, word |-> <<"k", "e", "y">>]}

AiTip(k) == <<"AI tip", Rep("i", k)>>

JsonList(n) == [type |-> "list", items |-> [k \in 1..n |-> AiTip(k)]]

JsonOther(type) == [type |-> type, items |-> <<>>]

Content(form, json) == [form |-> form, json |-> json]

Reply(kind, success, content) == [kind |-> kind, success |-> success, content |-> content]

EMPTY_CONTENT == Content("empty", JsonOther("none"))

\* What llm.generate can do: raise, return None, or return a dict whose
\* 'success' is false or whose 'content' is empty, a string (json.loads gives
\* json, or raises for "invalid") or an already parsed value
LlmReplies ==
    {Reply("raises", FALSE, EMPTY_CONTENT), Reply("none", FALSE, EMPTY_CONTENT),
     Reply("result", FALSE, Content("parsed", JsonList(1))),
     Reply("result", TRUE, EMPTY_CONTENT)}
    \cup {Reply("result", TRUE, Content("str", json)) :
             json \in {JsonOther("invalid"), JsonOther("object")}
                      \cup {JsonList(n) : n \in 0..MaxTips}}
    \cup {Reply("result", TRUE, Content("parsed", json)) :
             json \in {JsonOther("object")} \cup {JsonList(n) : n \in 1..MaxTips}}

\* importable: whether services.llm_service can be imported and constructed
LlmBehaviours == [importable : BOOLEAN, reply : LlmReplies]

\* The replies that decide between the fallback tips and the generator's:
\* an exception, and a JSON list of each length
DecidingReplies ==
    {Reply("raises", FALSE, EMPTY_CONTENT)}
    \cup {Reply("result", TRUE, Content("str", JsonList(n))) : n \in 1..MaxTips}

\* Whether the double can be just below the exact value of the blend: the
\* exact value is a positive integer and the letter accuracy is neither 0 nor
\* 100 (0.4 * per_adjusted and 0.6 * 100.0 are exact to the integer)
DoubleCanFallShort(analysis) ==
    LET exact == BlendExact(analysis.per_outcome.adjusted_score,
                            LetterAccuracy(analysis.letter_highlighting))
    IN  /\ exact.num % exact.den = 0
        /\ exact.num > 0
        /\ 0 < analysis.letter_highlighting.total_correct_letters
        /\ analysis.letter_highlighting.total_correct_letters
              < analysis.letter_highlighting.total_letters

InitDetector ==
    /\ pc = "detector"
    /\ detector_asr_result \in DetectorResults
    /\ detector_phoneme_scores \in SeqsUpTo(PhonemeScores, MaxPhonemes)
    /\ double_falls_short \in
          IF DoubleCanFallShort(Analysis(detector_asr_result, detector_phoneme_scores))
          THEN BOOLEAN ELSE {FALSE}
    /\ llm_service = None
    /\ reports = <<>>
    /\ IdleTips
    /\ IdleEdit
    /\ IdlePer
    /\ IdleHalluc
    /\ IdleWords
    /\ IdleGate
    /\ IdleLetters
    /\ IdleSummary
    /\ IdleThreads
    /\ IdleDiff
    /\ IdleLocations
    /\ IdleValidator
    /\ IdleSingletons

\* detect_mistakes(asr_result, phoneme_scores, expected_text) on the detector;
\* reports keeps what the latest two calls returned
CallDetectMistakes ==
    /\ pc = "detector"
    /\ \E analysis \in {Analysis(detector_asr_result, detector_phoneme_scores)} :
          \E llm \in [importable : BOOLEAN, reply : DecidingReplies] :
             \E out \in {Synthesis(analysis, llm_service, llm, double_falls_short)} :
                /\ reports' = IF Len(reports) < 2 THEN Append(reports, out.result)
                              ELSE <<reports[2], out.result>>
                /\ llm_service' = out.llm_service
    /\ UNCHANGED <<pc, detector_asr_result, detector_phoneme_scores, double_falls_short,
                   tipVars,
                   editVars, perVars, hallucVars, wordVars, gateVars, letterVars,
                   summaryVars, threadVars, diffVars, locationVars, validatorVars, singletonVars>>

\* The phoneme scores of a call made elsewhere: one weak phoneme
ElsewhereScores == <<[phoneme |-> <<"R", "1">>, score |-> 70, word |-> <<"r", "e", "d">>]>>

\* A call with other phoneme scores on the same detector (get_mistake_detector
\* hands out one detector): what it leaves behind is _llm_service
CallDetectMistakesElsewhere ==
    /\ pc = "detector"
    /\ \E importable \in BOOLEAN :
          llm_service' =
             detect_mistakes(detector_asr_result, ElsewhereScores, llm_service,
                             [importable |-> importable,
                              reply |-> Reply("raises", FALSE, EMPTY_CONTENT)],
                             FALSE).llm_service
    /\ UNCHANGED <<pc, detector_asr_result, detector_phoneme_scores, double_falls_short,
                   reports, tipVars,
                   editVars, perVars, hallucVars, wordVars, gateVars, letterVars,
                   summaryVars, threadVars, diffVars, locationVars, validatorVars, singletonVars>>

NextDetector == CallDetectMistakes \/ CallDetectMistakesElsewhere

SpecDetector == InitDetector /\ [][NextDetector]_vars

(***************************************************************************)
(* Calls of _generate_ai_tips on one detector                              *)
(***************************************************************************)
\* The weak_phoneme mistakes _generate_feedback passes on
WeakPhonemeLists ==
    {OfMistakeType(detect_phoneme_mistakes_classified(scores).mistakes, "weak_phoneme") :
        scores \in SeqsUpTo(PhonemeScores, MaxPhonemes)}

InitTips ==
    /\ pc = "tips"
    /\ tip_generation = <<>>
    /\ IdleDetector
    /\ IdleEdit
    /\ IdlePer
    /\ IdleHalluc
    /\ IdleWords
    /\ IdleGate
    /\ IdleLetters
    /\ IdleSummary
    /\ IdleThreads
    /\ IdleDiff
    /\ IdleLocations
    /\ IdleValidator
    /\ IdleSingletons

\* _generate_ai_tips(weak_phonemes, sentence); tip_generation records the
\* call: its argument, _llm_service before it, what the generator was set to
\* do, the tips returned and the number of llm.generate calls made
CallGenerateAiTips ==
    /\ pc = "tips"
    /\ \E weak_phonemes \in WeakPhonemeLists, llm \in LlmBehaviours :
          LET out == generate_ai_tips(weak_phonemes, llm_service, llm)
          IN  /\ tip_generation' = <<[weak_phonemes |-> weak_phonemes,
                                      service |-> llm_service,
                                      llm |-> llm,
                                      tips |-> out.tips,
                                      generate_calls |-> out.generate_calls]>>
              /\ llm_service' = out.llm_service
    /\ UNCHANGED <<pc, detector_asr_result, detector_phoneme_scores, double_falls_short,
                   reports,
                   editVars, perVars, hallucVars, wordVars, gateVars, letterVars,
                   summaryVars, threadVars, diffVars, locationVars, validatorVars, singletonVars>>

NextTips == CallGenerateAiTips

SpecTips == InitTips /\ [][NextTips]_vars

(***************************************************************************)
(* Claims about detect_mistakes                                            *)
(***************************************************************************)
\* C12 (as stated): adjusted_score is round(0.4 * PER adjusted_score
\* + 0.6 * letter_accuracy), rounded to the nearest integer as Python's
\* round does (a half goes to the even neighbour), minus 5 per word mistake,
\* floored at 0; stated for the calls in which the double is not below the
\* exact value.
C12_BlendIsRounded ==
    \A k \in 1..Len(reports) :
        LET r == reports[k]
            exact == BlendExact(r.per_adjusted_score, r.letter_accuracy)
            q == exact.num \div exact.den
            twice == 2 * (exact.num % exact.den)
            rounded == IF twice < exact.den THEN q
                       ELSE IF twice > exact.den THEN q + 1
                       ELSE IF q % 2 = 0 THEN q ELSE q + 1
        IN  ~double_falls_short =>
               r.adjusted_score = Max(0, rounded - WORD_MISTAKE_PENALTY * r.word_errors)

\* C13: two calls of detect_mistakes with the same asr_result and
\* phoneme_scores return the same adjusted_score and the same
\* specific_errors in the same order, whatever the tip generator did in
\* either call and whatever was called on the detector in between.
C13_Deterministic ==
    Len(reports) = 2 =>
        /\ reports[1].adjusted_score = reports[2].adjusted_score
        /\ reports[1].specific_errors = reports[2].specific_errors

\* C13: two reports on the same inputs whose tips differ: in one call the
\* generator's tips were taken, in the other the table's; a weak-phoneme
\* message is among the specific errors.
C13_Witness ==
    /\ Len(reports) = 2
    /\ \E i \in 1..Len(reports[1].mistakes) :
          /\ reports[1].mistakes[i].type = "weak_phoneme"
          /\ reports[1].mistakes[i].suggestion # reports[2].mistakes[i].suggestion
    /\ reports[1].error_classification.weak_phonemes = 1
    /\ Len(reports[1].specific_errors) > 0
    /\ reports[1].specific_errors[Len(reports[1].specific_errors)][1]
          = "The sound needs to be clearer."

\* C17: specific_errors has at most 5 entries, in this order: one message
\* about the missing words if there are any, the suggestions of the first 3
\* wrong_word / missing_sound mistakes in the order of the word diff, one
\* message about the substitutions if any were counted, and one about the
\* weak phonemes if any were counted and fewer than 5 entries precede it.
C17_SpecificErrorsOrder ==
    \A k \in 1..Len(reports) :
        LET r == reports[k]
            errors == r.specific_errors
            word_mistakes == SubSeq(r.mistakes, 1, r.word_errors)
            IsMissing(m) == m.type = "missing_word"
            IsWrong(m) == m.type \in {"wrong_word", "missing_sound"}
            wrong == SelectSeq(word_mistakes, IsWrong)
            nmissing == IF Len(SelectSeq(word_mistakes, IsMissing)) > 0 THEN 1 ELSE 0
            nwrong == IF Len(wrong) > 3 THEN 3 ELSE Len(wrong)
            nsubstitution == IF r.error_classification.substitutions > 0 THEN 1 ELSE 0
            nweak == IF r.error_classification.weak_phonemes > 0
                        /\ nmissing + nwrong + nsubstitution < 5
                     THEN 1 ELSE 0
        IN  /\ Len(errors) <= 5
            /\ Len(errors) = nmissing + nwrong + nsubstitution + nweak
            /\ \A i, j \in 1..Len(wrong) : i < j => wrong[i].position <= wrong[j].position
            /\ nmissing = 1 =>
                  errors[1][1] \in {"You missed the word.", "You missed words:"}
            /\ \A i \in 1..nwrong : errors[nmissing + i] = wrong[i].suggestion
            /\ nsubstitution = 1 =>
                  errors[nmissing + nwrong + 1][1]
                     \in {"You mispronounced the sound in.", "You mispronounced phonemes."}
            /\ nweak = 1 =>
                  errors[Len(errors)][1]
                     \in {"The sound needs to be clearer.", "phonemes need to be clearer."}

\* C17: a report with four wrong words, a missing word, a substitution and a
\* weak phoneme: the fourth wrong word and the weak phoneme have no message.
C17_Witness ==
    /\ Len(reports) > 0
    /\ Len(reports[1].specific_errors) = 5
    /\ reports[1].word_errors >= 5
    /\ reports[1].error_classification.substitutions = 1
    /\ reports[1].error_classification.weak_phonemes = 1
    /\ reports[1].specific_errors[1][1] = "You missed the word."
    /\ reports[1].specific_errors[5][1] = "You mispronounced the sound in."

(***************************************************************************)
(* Claims about _generate_ai_tips                                          *)
(***************************************************************************)
\* C15: _generate_ai_tips returns one tip per weak phoneme, in their order;
\* when the service cannot be loaded, or generate raises, reports failure,
\* returns content that is not JSON or a list of another length, tip k is
\* the table's tip for the stress-stripped phoneme k, or the generic
\* sentence quoting the phoneme; generate is called at most once.
C15_OneTipPerWeakPhoneme ==
    \A c \in 1..Len(tip_generation) :
        LET g == tip_generation[c]
            weak == g.weak_phonemes
            reply == g.llm.reply
            missing == g.service = None /\ ~g.llm.importable
            failed == \/ reply.kind = "raises"
                      \/ reply.kind = "result" /\ ~reply.success
                      \/ reply.content.json.type = "invalid"
                      \/ reply.content.json.type = "list"
                            /\ Len(reply.content.json.items) # Len(weak)
        IN  /\ Len(g.tips) = Len(weak)
            /\ g.generate_calls <= 1
            /\ missing => g.generate_calls = 0
            /\ (missing \/ failed) =>
                  \A k \in 1..Len(weak) :
                      LET NotDigit(ch) == ~IsDigit(ch)
                          base == SelectSeq(weak[k].phoneme, NotDigit)
                      IN  IF \E entry \in BASIC_TIPS : entry[1] = base
                          THEN \E entry \in BASIC_TIPS :
                                  entry[1] = base /\ g.tips[k] = <<entry[2]>>
                          ELSE g.tips[k] = <<"Practice the sound more carefully.",
                                             weak[k].phoneme>>

\* C15: the generator returned one tip for the two weak phonemes R1 and
\* AH0: the tips are the table's for R and the generic one for AH0.
C15_Witness ==
    /\ Len(tip_generation) = 1
    /\ Len(tip_generation[1].weak_phonemes) = 2
    /\ tip_generation[1].weak_phonemes[1].phoneme = <<"R", "1">>
    /\ tip_generation[1].weak_phonemes[2].phoneme = <<"A", "H", "0">>
    /\ tip_generation[1].llm.reply.kind = "result"
    /\ tip_generation[1].llm.reply.success
    /\ tip_generation[1].llm.reply.content.json.type = "list"
    /\ Len(tip_generation[1].llm.reply.content.json.items) = 1
    /\ tip_generation[1].generate_calls = 1
    /\ tip_generation[1].tips = << <<"Curl your tongue back slightly.">>,
                                   <<"Practice the sound more carefully.",
                                     <<"A", "H", "0">>>> >>

(***************************************************************************)
(* asr_validator.py: get_word_diff called on its own, and                  *)
(* mistake_detector.py: _detect_word_mistakes on the list it returns.      *)
(*                                                                         *)
(* The arguments are the two word lists, as validate_speech passes them:   *)
(* lower-case words without white space.                                   *)
(***************************************************************************)
\* Words that reach every rule of _detect_word_issue: 't' and 'h' begin and
\* end 'th', 'dh' differs from 'th' in one letter, 'd' is shorter
DiffWords == {<<"t">>, <<"t", "h">>, <<"h">>, <<"d">>, <<"d", "h">>}

MaxTranscribed == 3

MaxExpected == 2

InitDiff ==
    /\ pc = "call"
    /\ diff_transcribed \in SeqsUpTo(DiffWords, MaxTranscribed)
    /\ diff_expected \in SeqsUpTo(DiffWords, MaxExpected)
    /\ diff_result = <<>>
    /\ diff_mistakes = <<>>
    /\ IdleEdit
    /\ IdlePer
    /\ IdleHalluc
    /\ IdleWords
    /\ IdleGate
    /\ IdleLetters
    /\ IdleSummary
    /\ IdleThreads
    /\ IdleDetector
    /\ IdleTips
    /\ IdleLocations
    /\ IdleValidator
    /\ IdleSingletons

\* word_diff = get_word_diff(transcribed, expected)
CallGetWordDiff ==
    /\ pc = "call"
    /\ pc' = "return"
    /\ \E results \in {get_word_diff(diff_transcribed, diff_expected)} :
           diff_result' = results
    /\ UNCHANGED <<diff_transcribed, diff_expected, diff_mistakes,
                   editVars, perVars, hallucVars, wordVars, gateVars, letterVars,
                   summaryVars, threadVars, detectorVars, tipVars, locationVars, validatorVars, singletonVars>>

\* mistakes = detector._detect_word_mistakes({'word_diff': word_diff})
CallDetectWordMistakes ==
    /\ pc = "return"
    /\ pc' = "detected"
    /\ \E mistakes \in {detect_word_mistakes([word_diff |-> diff_result])} :
           diff_mistakes' = mistakes
    /\ UNCHANGED <<diff_transcribed, diff_expected, diff_result,
                   editVars, perVars, hallucVars, wordVars, gateVars, letterVars,
                   summaryVars, threadVars, detectorVars, tipVars, locationVars, validatorVars, singletonVars>>

NextDiff == CallGetWordDiff \/ CallDetectWordMistakes

SpecDiff == InitDiff /\ [][NextDiff]_vars

\* get_word_diff has returned
Diffed == pc \in {"return", "detected"}

\* The opcode whose block of expected holds its j-th word (j from 1)
BlockOfExpected(j) ==
    CHOOSE op \in Range(get_opcodes(diff_transcribed, diff_expected)) :
        op[4] < j /\ j <= op[5]

\* The entries of the returned list for the expected word at position j - 1
EntriesOfExpected(j) ==
    {k \in 1..Len(diff_result) :
        diff_result[k].type # "extra" /\ diff_result[k].position = j - 1}

\* The transcribed words (indexes from 1) that lie in delete blocks
DeletedTranscribed ==
    {i \in 1..Len(diff_transcribed) :
        \E op \in Range(get_opcodes(diff_transcribed, diff_expected)) :
            op[1] = "delete" /\ op[2] < i /\ i <= op[3]}

TypeOfTag(tag) ==
    IF tag = "equal" THEN "correct" ELSE IF tag = "replace" THEN "wrong" ELSE "missing"

\* C21: in the list get_word_diff returns, every expected word has exactly one
\* entry at its own position, of type 'correct', 'wrong' or 'missing' as its
\* block is equal, replace or insert; every transcribed word of a delete
\* block has an 'extra' entry at its position and there are no other 'extra'
\* entries; and the positions never decrease along the list.
C21_OneEntryPerExpectedWord ==
    Diffed =>
        /\ \A j \in 1..Len(diff_expected) :
               /\ Cardinality(EntriesOfExpected(j)) = 1
               /\ \A k \in EntriesOfExpected(j) :
                      /\ diff_result[k].word = diff_expected[j]
                      /\ diff_result[k].type = TypeOfTag(BlockOfExpected(j)[1])
        /\ \A k \in 1..Len(diff_result) :
               diff_result[k].type # "extra" => diff_result[k].position < Len(diff_expected)
        /\ \A i \in DeletedTranscribed :
               Cardinality({k \in 1..Len(diff_result) :
                               /\ diff_result[k].type = "extra"
                               /\ diff_result[k].position = i - 1
                               /\ diff_result[k].user_said = diff_transcribed[i]}) = 1
        /\ Cardinality({k \in 1..Len(diff_result) : diff_result[k].type = "extra"})
               = Cardinality(DeletedTranscribed)
        /\ \A k \in 1..(Len(diff_result) - 1) :
               diff_result[k].position <= diff_result[k + 1].position

\* Two extra words before a correct and a missing one: the entries are made
\* in the order extra 0, extra 1, correct 0, missing 1 and then sorted
C21_Witness ==
    /\ Diffed
    /\ Len(diff_result) = 4
    /\ diff_result[1].type = "extra"
    /\ diff_result[2].type = "correct"
    /\ diff_result[3].type = "extra"
    /\ diff_result[4].type = "missing"

\* The 'wrong' entries of the returned list
WrongEntries == {k \in 1..Len(diff_result) : diff_result[k].type = "wrong"}

\* No word was spoken at the place of a 'wrong' entry: the replace block has
\* more expected words than transcribed ones and user_said is '(nothing)'
NothingSaid(entry) == entry.user_said = NOTHING

\* The sub-issue the five rules give for an actual and an expected word, the
\* first rule that applies winning
IssueByRules(actual, expected_word) ==
    IF StartsWith(expected_word, actual) /\ Len(expected_word) > Len(actual)
    THEN <<"missing_ending_", SubSeq(expected_word, Len(actual) + 1, Len(expected_word))>>
    ELSE IF EndsWith(expected_word, actual) /\ Len(expected_word) > Len(actual)
    THEN <<"missing_beginning_",
           SubSeq(expected_word, 1, Len(expected_word) - Len(actual))>>
    ELSE IF /\ Len(expected_word) = Len(actual)
            /\ Cardinality({i \in 1..Len(actual) : actual[i] # expected_word[i]}) = 1
    THEN LET i == CHOOSE i \in 1..Len(actual) : actual[i] # expected_word[i]
         IN  <<"substituted_", expected_word[i], "_with_", actual[i]>>
    ELSE IF /\ \E i \in 1..(Len(expected_word) - 1) :
                   expected_word[i] = "t" /\ expected_word[i + 1] = "h"
            /\ \E i \in 1..Len(actual) : actual[i] \in {"d", "t"}
    THEN <<"th_substitution">>
    ELSE <<"mispronounced">>

EntriesOfTranscribed ==
    {k \in 1..Len(diff_result) :
        \/ diff_result[k].type \in {"correct", "extra"}
        \/ diff_result[k].type = "wrong" /\ ~NothingSaid(diff_result[k])}

\* C30: every transcribed word is accounted for in the list get_word_diff
\* returns, by a 'correct' entry, as the user_said of a 'wrong' entry or by an
\* 'extra' entry: there are as many such entries as transcribed words.
C30_EveryTranscribedWordAccounted ==
    Diffed => Cardinality(EntriesOfTranscribed) = Len(diff_transcribed)

\* C23: every entry of the word diff other than 'correct' gives one word
\* mistake; a missing_word is major, an extra_word is minor, and a
\* missing_sound, wrong_sound or wrong_word is moderate or minor.
C23_SeverityFollowsType ==
    pc = "detected" =>
        /\ Len(diff_mistakes)
               = Cardinality({k \in 1..Len(diff_result) : diff_result[k].type # "correct"})
        /\ \A k \in 1..Len(diff_mistakes) :
               LET m == diff_mistakes[k]
               IN  /\ m.type = "missing_word" => m.severity = "major"
                   /\ m.type = "extra_word" => m.severity = "minor"
                   /\ m.type \in {"missing_sound", "wrong_sound", "wrong_word"}
                          => m.severity \in {"moderate", "minor"}

(***************************************************************************)
(* asr_validator.py: transcribe_audio calls one after the other, each      *)
(* followed by get_word_locations.                                         *)
(***************************************************************************)
MaxCalls == 3

\* What the pipeline gives a call: a text with its chunks, a text that
\* _is_hallucination rejects, or an exception
LocationAudios ==
    {Text(<<"a">>), Text(<<"a", " ", "B">>), Text(Rep("z", REPEAT_RUN)), PipelineError}

\* The call returns '' without reaching "_word_locations = []"
EndsEarly(asr) == asr.kind = "pipeline_error" \/ is_hallucination(asr.text)

InitLocations ==
    /\ pc = "transcribe"
    /\ transcribe_calls = <<>>
    /\ module_word_locations = <<>>
    /\ got_word_locations = None
    /\ IdleEdit
    /\ IdlePer
    /\ IdleHalluc
    /\ IdleWords
    /\ IdleGate
    /\ IdleLetters
    /\ IdleSummary
    /\ IdleThreads
    /\ IdleDetector
    /\ IdleTips
    /\ IdleDiff
    /\ IdleValidator
    /\ IdleSingletons

\* transcribe_audio(audio_path), the model loaded: the global is rebound and
\* filled only after the pipeline returned and the text passed the
\* hallucination check
CallTranscribeAudio ==
    /\ pc = "transcribe"
    /\ Len(transcribe_calls) < MaxCalls
    /\ \E asr \in LocationAudios :
          /\ transcribe_calls' = Append(transcribe_calls, asr)
          /\ module_word_locations' =
                IF EndsEarly(asr) THEN module_word_locations ELSE WordLocations(asr)
    /\ pc' = "get"
    /\ UNCHANGED <<got_word_locations,
                   editVars, perVars, hallucVars, wordVars, gateVars, letterVars,
                   summaryVars, threadVars, detectorVars, tipVars, diffVars, validatorVars, singletonVars>>

\* get_word_locations()
CallGetWordLocations ==
    /\ pc = "get"
    /\ got_word_locations' = module_word_locations
    /\ pc' = "transcribe"
    /\ UNCHANGED <<transcribe_calls, module_word_locations,
                   editVars, perVars, hallucVars, wordVars, gateVars, letterVars,
                   summaryVars, threadVars, detectorVars, tipVars, diffVars, validatorVars, singletonVars>>

NextLocations == CallTranscribeAudio \/ CallGetWordLocations

SpecLocations == InitLocations /\ [][NextLocations]_vars

\* The most recent transcribe_audio call
LastCall == transcribe_calls[Len(transcribe_calls)]

\* C25: after any sequence of transcribe_audio calls, get_word_locations
\* returns the word locations of the most recent call: those of its chunks
\* when it returned a transcription, and none when it ended in a rejected
\* transcription or an exception; never those of an earlier call.
C25_LocationsOfTheLastCall ==
    (pc = "transcribe" /\ transcribe_calls # <<>>) =>
        got_word_locations = IF EndsEarly(LastCall) THEN <<>> ELSE WordLocations(LastCall)

\* The counts a summary line states, added up
CountedInSummary(line) ==
    IF Len(line) < 2 THEN 0
    ELSE IF Len(line[2]) = 1 THEN line[2][1][1]
    ELSE line[2][1][1] + line[2][2][1]

\* C24: the summary of a report is "Perfect pronunciation!" exactly when the
\* report has no mistakes; with at least one mistake it is the sentence that
\* states the count of word mistakes and/or of sound mistakes, and every
\* mistake is counted in one of the two groups.
C24_SummaryCountsEveryMistake ==
    pc = "detector" =>
        \A k \in 1..Len(reports) :
            LET r == reports[k]
            IN  /\ (r.summary = <<"Perfect pronunciation!">>) <=> (r.mistakes = <<>>)
                /\ r.mistakes # <<>> =>
                       /\ r.summary[1] = "Work on:"
                       /\ CountedInSummary(r.summary) = Len(r.mistakes)

(***************************************************************************)
(* word_validator.py                                                       *)
(***************************************************************************)
\* align_words_positional
align_words_positional(user_words, reference_words) ==
    [i \in 1..Min(Len(user_words), Len(reference_words)) |->
        [position |-> i - 1, reference |-> reference_words[i], user |-> user_words[i],
         is_match |-> user_words[i] = reference_words[i],
         is_substitution |-> user_words[i] # reference_words[i]]]

\* align_words_dtw of word_validator.py, from reference word ref_idx (from 1)
\* on: the first unused user word at the least edit distance is taken if
\* that distance is at most len(ref_word) // 2 + 1
RECURSIVE AlignFrom(_, _, _, _)
AlignFrom(user_words, reference_words, ref_idx, used_user_indices) ==
    IF ref_idx > Len(reference_words) THEN <<>>
    ELSE LET ref_word == reference_words[ref_idx]
             free == (1..Len(user_words)) \ used_user_indices
             dist(u) == edit_distance(user_words[u], ref_word)
             best_match_idx ==
                 CHOOSE u \in free :
                     \A v \in free : dist(u) < dist(v) \/ (dist(u) = dist(v) /\ u <= v)
         IN  IF free # {} /\ dist(best_match_idx) <= (Len(ref_word) \div 2) + 1
             THEN <<[position |-> ref_idx - 1, reference |-> ref_word,
                     user |-> user_words[best_match_idx],
                     user_position |-> best_match_idx - 1,
                     is_match |-> ref_word = user_words[best_match_idx],
                     is_substitution |-> ref_word # user_words[best_match_idx],
                     edit_distance |-> dist(best_match_idx)]>>
                  \o AlignFrom(user_words, reference_words, ref_idx + 1,
                               used_user_indices \cup {best_match_idx})
             ELSE <<[position |-> ref_idx - 1, reference |-> ref_word, user |-> None,
                     user_position |-> -1, is_match |-> FALSE, is_missing |-> TRUE,
                     edit_distance |-> Len(ref_word)]>>
                  \o AlignFrom(user_words, reference_words, ref_idx + 1, used_user_indices)

\* What find_missing_words takes from one opcode of
\* SequenceMatcher(None, user_words, reference_words)
MissingInBlock(op, user_words, reference_words) ==
    LET NoSimilar(ref_word) ==
            \A i \in (op[2] + 1)..op[3] :
                edit_distance(user_words[i], ref_word) > Len(ref_word) \div 2
    IN  IF op[1] = "delete" THEN SubSeq(reference_words, op[4] + 1, op[5])
        ELSE IF op[1] = "replace"
        THEN SelectSeq(SubSeq(reference_words, op[4] + 1, op[5]), NoSimilar)
        ELSE <<>>

\* find_missing_words
find_missing_words(user_words, reference_words) ==
    LET ops == get_opcodes(user_words, reference_words)
        missing == Concat([k \in 1..Len(ops) |->
                              MissingInBlock(ops[k], user_words, reference_words)])
        NotSpokenNorClose(ref_word) ==
            /\ ~\E i \in 1..Len(user_words) : user_words[i] = ref_word
            /\ ~\E i \in 1..Len(user_words) :
                   LET u == user_words[i]
                   IN  /\ Len(u) - Len(ref_word) <= 2
                       /\ Len(ref_word) - Len(u) <= 2
                       /\ SubSeq(u, 1, Min(2, Len(u)))
                              = SubSeq(ref_word, 1, Min(2, Len(ref_word)))
    IN  IF missing # <<>> THEN missing
        ELSE SelectSeq(reference_words, NotSpokenNorClose)

\* find_extra_words
find_extra_words(user_words, reference_words) ==
    LET IsExtra(user_word) ==
            /\ ~\E j \in 1..Len(reference_words) : reference_words[j] = user_word
            /\ ~\E j \in 1..Len(reference_words) :
                   edit_distance(user_word, reference_words[j])
                       <= Len(reference_words[j]) \div 2
    IN  SelectSeq(user_words, IsExtra)

WordValidationResult(is_valid, total_expected, total_spoken, missing_words, extra_words, word_alignment, message) ==
    [is_valid |-> is_valid, total_expected |-> total_expected,
     total_spoken |-> total_spoken, missing_words |-> missing_words,
     extra_words |-> extra_words, word_alignment |-> word_alignment, message |-> message]

\* validate_word_count; the f-strings are their fixed wording followed by
\* their fields
validate_word_count(user_words, reference_words) ==
    LET user_count == Len(user_words)
        ref_count == Len(reference_words)
        user_lower == [i \in 1..user_count |-> Strip(Lower(user_words[i]))]
        ref_lower == [i \in 1..ref_count |-> Strip(Lower(reference_words[i]))]
        missing == find_missing_words(user_lower, ref_lower)
        extra == find_extra_words(user_lower, ref_lower)
    IN  IF user_count = ref_count
        THEN WordValidationResult(TRUE, ref_count, user_count, <<>>, <<>>,
                 align_words_positional(user_lower, ref_lower),
                 <<"Word count matches. Proceeding to phoneme analysis.">>)
        ELSE IF user_count < ref_count
        THEN WordValidationResult(FALSE, ref_count, user_count, missing, <<>>,
                 AlignFrom(user_lower, ref_lower, 1, {}),
                 IF Len(missing) = 1 THEN <<"You missed the word.", missing[1]>>
                 ELSE <<"You missed words:", Len(missing), missing>>)
        ELSE WordValidationResult(FALSE, ref_count, user_count, <<>>, extra,
                 AlignFrom(user_lower, ref_lower, 1, {}),
                 IF Len(extra) = 1
                 THEN <<"You added an extra word. Please say only the sentence shown.",
                        extra[1]>>
                 ELSE <<"You added extra words:", Len(extra), extra>>)

\* Words with a repeat after normalisation ('A' and 'a'), a close pair ('ab'
\* and 'abc': same first two letters) and a word far from the others
ValidatorWords ==
    {<<"a">>, <<"A">>, <<"a", "b">>, <<"a", "b", "c">>, <<"c", "d">>}

MaxUserWords == 2

MaxReferenceWords == 3

InitValidator ==
    /\ pc = "call"
    /\ validator_user_words \in SeqsUpTo(ValidatorWords, MaxUserWords)
    /\ validator_reference_words \in SeqsUpTo(ValidatorWords, MaxReferenceWords)
    /\ word_validation = None
    /\ IdleEdit
    /\ IdlePer
    /\ IdleHalluc
    /\ IdleWords
    /\ IdleGate
    /\ IdleLetters
    /\ IdleSummary
    /\ IdleThreads
    /\ IdleDetector
    /\ IdleTips
    /\ IdleDiff
    /\ IdleLocations
    /\ IdleSingletons

\* result = validate_word_count(user_words, reference_words)
CallValidateWordCount ==
    /\ pc = "call"
    /\ pc' = "return"
    /\ \E result \in {validate_word_count(validator_user_words, validator_reference_words)} :
           word_validation' = result
    /\ UNCHANGED <<validator_user_words, validator_reference_words,
                   editVars, perVars, hallucVars, wordVars, gateVars, letterVars,
                   summaryVars, threadVars, detectorVars, tipVars, diffVars, locationVars, singletonVars>>

NextValidator == CallValidateWordCount

SpecValidator == InitValidator /\ [][NextValidator]_vars

\* C26: validate_word_count is valid exactly when the two word counts are
\* equal; with fewer user words than reference words it reports at least one
\* missing word, and with more user words at least one extra word, so that
\* the message names a word.
C26_CountMismatchNamesAWord ==
    pc = "return" =>
        /\ word_validation.is_valid
               <=> (Len(validator_user_words) = Len(validator_reference_words))
        /\ Len(validator_user_words) < Len(validator_reference_words)
               => word_validation.missing_words # <<>>
        /\ Len(validator_user_words) > Len(validator_reference_words)
               => word_validation.extra_words # <<>>

(***************************************************************************)
(* asr_validator.py: _get_whisper_model, and mistake_detector.py:          *)
(* get_mistake_detector, called by concurrent threads.                     *)
(*                                                                         *)
(* Neither function takes a lock: a thread can be suspended between the    *)
(* test "is None" and the assignment.  Each caller first gets the Whisper  *)
(* pipeline and then the mistake detector; an instance is named by the     *)
(* caller that constructed it.                                             *)
(***************************************************************************)
Callers == {1, 2}

\* The object constructed by caller t
Instance(t) == ToString(t)

InitSingletons ==
    /\ pc = "singletons"
    /\ caller_pc = [t \in Callers |-> "whisper_test"]
    /\ whisper_pipeline = None
    /\ pipelines_constructed = 0
    /\ got_pipeline = [t \in Callers |-> None]
    /\ mistake_detector = None
    /\ detectors_constructed = 0
    /\ got_detector = [t \in Callers |-> None]
    /\ IdleEdit
    /\ IdlePer
    /\ IdleHalluc
    /\ IdleWords
    /\ IdleGate
    /\ IdleLetters
    /\ IdleSummary
    /\ IdleThreads
    /\ IdleDetector
    /\ IdleTips
    /\ IdleDiff
    /\ IdleLocations
    /\ IdleValidator

\* "if _whisper_pipeline is None:"
WhisperTest(t) ==
    /\ caller_pc[t] = "whisper_test"
    /\ caller_pc' = [caller_pc EXCEPT ![t] = IF whisper_pipeline = None
                                             THEN "whisper_construct"
                                             ELSE "whisper_return"]
    /\ UNCHANGED <<pc, whisper_pipeline, pipelines_constructed, got_pipeline,
                   mistake_detector, detectors_constructed, got_detector,
                   editVars, perVars, hallucVars, wordVars, gateVars, letterVars,
                   summaryVars, threadVars, detectorVars, tipVars, diffVars, locationVars,
                   validatorVars>>

\* "_whisper_pipeline = pipeline(...)"
WhisperConstruct(t) ==
    /\ caller_pc[t] = "whisper_construct"
    /\ pipelines_constructed' = pipelines_constructed + 1
    /\ whisper_pipeline' = Instance(t)
    /\ caller_pc' = [caller_pc EXCEPT ![t] = "whisper_return"]
    /\ UNCHANGED <<pc, got_pipeline, mistake_detector, detectors_constructed, got_detector,
                   editVars, perVars, hallucVars, wordVars, gateVars, letterVars,
                   summaryVars, threadVars, detectorVars, tipVars, diffVars, locationVars,
                   validatorVars>>

\* "return _whisper_pipeline"
WhisperReturn(t) ==
    /\ caller_pc[t] = "whisper_return"
    /\ got_pipeline' = [got_pipeline EXCEPT ![t] = whisper_pipeline]
    /\ caller_pc' = [caller_pc EXCEPT ![t] = "detector_test"]
    /\ UNCHANGED <<pc, whisper_pipeline, pipelines_constructed,
                   mistake_detector, detectors_constructed, got_detector,
                   editVars, perVars, hallucVars, wordVars, gateVars, letterVars,
                   summaryVars, threadVars, detectorVars, tipVars, diffVars, locationVars,
                   validatorVars>>

\* "if _mistake_detector is None:"
DetectorTest(t) ==
    /\ caller_pc[t] = "detector_test"
    /\ caller_pc' = [caller_pc EXCEPT ![t] = IF mistake_detector = None
                                             THEN "detector_construct"
                                             ELSE "detector_return"]
    /\ UNCHANGED <<pc, whisper_pipeline, pipelines_constructed, got_pipeline,
                   mistake_detector, detectors_constructed, got_detector,
                   editVars, perVars, hallucVars, wordVars, gateVars, letterVars,
                   summaryVars, threadVars, detectorVars, tipVars, diffVars, locationVars,
                   validatorVars>>

\* "_mistake_detector = MistakeDetector()"
DetectorConstruct(t) ==
    /\ caller_pc[t] = "detector_construct"
    /\ detectors_constructed' = detectors_constructed + 1
    /\ mistake_detector' = Instance(t)
    /\ caller_pc' = [caller_pc EXCEPT ![t] = "detector_return"]
    /\ UNCHANGED <<pc, whisper_pipeline, pipelines_constructed, got_pipeline, got_detector,
                   editVars, perVars, hallucVars, wordVars, gateVars, letterVars,
                   summaryVars, threadVars, detectorVars, tipVars, diffVars, locationVars,
                   validatorVars>>

\* "return _mistake_detector"
DetectorReturn(t) ==
    /\ caller_pc[t] = "detector_return"
    /\ got_detector' = [got_detector EXCEPT ![t] = mistake_detector]
    /\ caller_pc' = [caller_pc EXCEPT ![t] = "done"]
    /\ UNCHANGED <<pc, whisper_pipeline, pipelines_constructed, got_pipeline,
                   mistake_detector, detectors_constructed,
                   editVars, perVars, hallucVars, wordVars, gateVars, letterVars,
                   summaryVars, threadVars, detectorVars, tipVars, diffVars, locationVars,
                   validatorVars>>

NextSingletons ==
    \E t \in Callers :
       \/ WhisperTest(t)
       \/ WhisperConstruct(t)
       \/ WhisperReturn(t)
       \/ DetectorTest(t)
       \/ DetectorConstruct(t)
       \/ DetectorReturn(t)

SpecSingletons == InitSingletons /\ [][NextSingletons]_vars

\* C27: under every interleaving of concurrent first callers the Whisper
\* pipeline is constructed at most once, at most one MistakeDetector is
\* constructed, and all callers of get_mistake_detector receive the same
\* instance.
C27_InitialisedOnce ==
    pc = "singletons" =>
        /\ pipelines_constructed <= 1
        /\ detectors_constructed <= 1
        /\ \A t, u \in Callers :
               (caller_pc[t] = "done" /\ caller_pc[u] = "done")
                   => got_detector[t] = got_detector[u]

\* What the operations from the k-th on make of a, read from its character
\* cursor + 1 on: a match copies the character of a, a substitution and an
\* insertion write char2, a deletion skips the character of a; characters of
\* a left over at the end are kept
RECURSIVE ApplyOperations(_, _, _, _)
ApplyOperations(ops, k, a, cursor) ==
    IF k > Len(ops) THEN SubSeq(a, cursor + 1, Len(a))
    ELSE IF ops[k].type = "match"
    THEN <<a[cursor + 1]>> \o ApplyOperations(ops, k + 1, a, cursor + 1)
    ELSE IF ops[k].type = "substitute"
    THEN <<ops[k].char2>> \o ApplyOperations(ops, k + 1, a, cursor + 1)
    ELSE IF ops[k].type = "delete"
    THEN ApplyOperations(ops, k + 1, a, cursor + 1)
    ELSE <<ops[k].char2>> \o ApplyOperations(ops, k + 1, a, cursor)

\* C28: the list get_edit_operations(a, b) returns has exactly
\* edit_distance(a, b) operations that are not 'match' (the two DP tables
\* agree), len(a) operations that consume a character of a (match,
\* substitute, delete) and len(b) that consume a character of b (match,
\* substitute, insert), and applying the operations in order to a yields b.
C28_OperationsAgreeWithDistance ==
    (pc = "return" /\ edit_result.fn = "get_edit_operations") =>
        LET ops == edit_result.value
            Of(types) == Cardinality({k \in 1..Len(ops) : ops[k].type \in types})
        IN  /\ \A k \in 1..Len(ops) :
                   ops[k].type \in {"match", "substitute", "delete", "insert"}
            /\ Of({"substitute", "delete", "insert"}) = edit_distance(seq1, seq2)
            /\ Of({"match", "substitute", "delete"}) = Len(seq1)
            /\ Of({"match", "substitute", "insert"}) = Len(seq2)
            /\ ApplyOperations(ops, 1, seq1, 0) = seq2

\* A script with a match, a substitution and a deletion
C28_Witness ==
    /\ pc = "return"
    /\ edit_result.fn = "get_edit_operations"
    /\ Len(seq1) = 3
    /\ Len(seq2) = 2
    /\ \E i, j, k \in 1..Len(edit_result.value) :
           /\ edit_result.value[i].type = "match"
           /\ edit_result.value[j].type = "substitute"
           /\ edit_result.value[k].type = "delete"

====
